---- MODULE Spec2Model ----
(***************************************************************************)
(* A state-machine model of the HIPRT path tracer's frame orchestrator     *)
(* (GPURenderer), of the device stream it submits work to (HIPKernel), and *)
(* of the per-pixel accumulation of the path tracing kernel.               *)
(*                                                                         *)
(* The orchestrator's public operations are called in any order by one     *)
(* control thread, while the device stream executes what was enqueued and  *)
(* the background thread compiles the kernel.  The operations are grouped  *)
(* by the state they work on, the rest of the state staying as built:      *)
(*                                                                         *)
(*   Spec          update, render, resize, the read-back of the status     *)
(*                 scalars and the adaptive sampling switch.               *)
(*   SceneSpec     update, render, resize, set_envmap, set_scene,          *)
(*                 update_materials, the world settings and the adaptive   *)
(*                 sampling switch.                                        *)
(*   SettingsSpec  render, reset, the sample counters, the low resolution  *)
(*                 and samples-per-frame settings, the read-back.          *)
(*   SnapshotSpec  render against settings edited while launches are in    *)
(*                 flight.                                                 *)
(*   KernelSpec    one launch after the other of PathTracerKernel, thread  *)
(*                 by thread, on the buffers of a small resolution.        *)
(***************************************************************************)
EXTENDS Integers, Sequences, FiniteSets, TLC

(***************************************************************************)
(* Bounds of the model.                                                    *)
(***************************************************************************)
\* resize() is called with widths in 1..MaxWidth
MaxWidth == 2
\* render() is called at most MaxLaunches times in one behaviour of Spec,
\* SceneSpec and SettingsSpec, at most MaxFrames times in one of SnapshotSpec
MaxLaunches == 1
MaxFrames == 2
\* the host advances sample_number up to MaxSampleNumber
MaxSampleNumber == 2
\* a launch of the stream model counts at most MaxConverged converged pixels
MaxConverged == 1
\* the kernel is launched at widths in 1..KernelMaxWidth and heights in
\* 1..KernelMaxHeight
KernelMaxWidth == 1
KernelMaxHeight == 2
\* a sample's radiance is in 0..MaxRadiance
MaxRadiance == 1
\* GridSpec launches at resolutions of 1..MaxGridWidth by 1..MaxGridHeight
MaxGridWidth == 9
MaxGridHeight == 9
\* SeedSpec observes up to MaxRuns launches
MaxRuns == 3
\* PathSpec launches with nb_bounces up to MaxBounces and samples_per_frame
\* up to MaxSamplesPerFrame
MaxBounces == 4
MaxSamplesPerFrame == 2

(***************************************************************************)
(* Program constants.                                                      *)
(***************************************************************************)
\* GPURenderer::render: int tile_size_x = 8; int tile_size_y = 8;
TileSize == 8

BOOL01 == {0, 1}

Widths == 1..MaxWidth

\* resize() is called with one height: the buffers are sized by the number
\* of pixels
Heights == {1}

\* a group count that rounds down
FloorDiv(a, b) == a \div b

\* std::ceil(a / (float)b) for a >= 0, b > 0
CeilDiv(a, b) == (a + b - 1) \div b

(***************************************************************************)
(* The device buffers GPURenderer owns.  The scene's buffers are one entry *)
(* ("scene"), the environment map's texture and its CDF are two.           *)
(***************************************************************************)
PerPixelBuffers ==
    {"framebuffer", "denoised_framebuffer", "normals_AOV", "albedo_AOV"}

StatsBuffers == {"pixels_sample_count", "pixels_squared_luminance"}

StatusBuffers == {"still_one_ray_active", "pixels_converged_count"}

BufferNames ==
    PerPixelBuffers \cup StatsBuffers \cup StatusBuffers
        \cup {"scene", "envmap", "envmap_cdf"}

Events ==
    {"frame_start", "frame_stop", "execution_start", "execution_stop"}

VARIABLES
    \* ---- GPURenderer ----
    m_render_width,             \* int
    m_render_height,            \* int
    m_render_settings,          \* HIPRTRenderSettings
    m_world_settings,           \* WorldSettings
    element_count,              \* buffer name -> get_element_count()
    dev_still_one_ray_active,   \* device value of m_still_one_ray_active_buffer[0]
    dev_pixels_converged_count, \* device value of m_pixels_converged_count_buffer[0]
    m_status_buffers_values,    \* host copy of the two status scalars
    m_last_frame_time,          \* <<start stamp, stop stamp>> of the events read, NoTime after a reset
    m_was_last_frame_low_resolution,
    m_materials,                \* the materials uploaded last (a version number)
    \* ---- HIPKernel m_path_trace_kernel ----
    m_path_trace_kernel,        \* HIPKernel: file path, function name, compiler options
    m_kernel_function,          \* 0 = nullptr, otherwise a compiled entry point
    compile_thread_read,        \* the states of the kernel the compilation thread may have read
    recompiled_since_set,       \* recompile_trace_kernel() returned after the compilation thread
                                \* finished, and no setter of the kernel was called since
    m_last_execution_time,
    \* ---- device and threads ----
    compile_thread,             \* "running" | "finished"
    stream,                     \* m_main_stream: the operations enqueued, in order
    events,                     \* event -> [pending, stamp]
    host_pc,                    \* where the control thread is: "idle" | "update_sync"
    \* ---- history ----
    launches,                   \* number of launches render() has issued
    launches_at_reset,          \* the value of launches when reset() was last called
    since_update,               \* what the control thread did after the last update():
                                \* "none", "clean" (no settings edit), "dirty"
    \* ---- KernelSpec ----
    \* ---- one launch of PathTracerKernel after the other ----
    res,                        \* int2 res, the resolution the kernel is launched with
    render_data,                \* the render settings of the launch argument
    pixels,                     \* render_data.buffers.pixels, by linear index
    pixel_sample_count,         \* render_data.aux_buffers.pixel_sample_count
    pixel_squared_luminance,    \* render_data.aux_buffers.pixel_squared_luminance
    denoiser_normals,           \* render_data.aux_buffers.denoiser_normals
    denoiser_albedo,            \* render_data.aux_buffers.denoiser_albedo
    camera_hits,                \* the shading normals a camera ray can meet in the scene
    still_one_ray_active,       \* render_data.aux_buffers.still_one_ray_active[0]
    stop_noise_threshold_count, \* render_data.aux_buffers.stop_noise_threshold_count
    kernel_phase,               \* "idle" between two frames, "running" during a launch
    threads,                    \* the threads of the launch that passed the bounds check
    accumulated,                \* per index, the samples added to it: their sum, their number
    all_valid,                  \* no sample failed the sanity check so far
    traced,                     \* the outcomes of the bounce loop computed so far, by TraceKey
    launch_inputs,              \* the buffers as the running launch found them
    runs,                       \* the launches with freeze_random set: settings, buffers before and after
    \* ---- BsdfSpec ----
    bsdf,                       \* the last call of the Cook-Torrance functions: arguments and results
    path                        \* one thread in its sample loop: the loop counters and the ray payload

hostvars ==
    <<m_render_width, m_render_height, m_render_settings, m_world_settings,
      element_count, dev_still_one_ray_active, dev_pixels_converged_count,
      m_status_buffers_values, m_last_frame_time, m_was_last_frame_low_resolution,
      m_materials,
      m_path_trace_kernel, m_kernel_function, compile_thread_read,
      recompiled_since_set, m_last_execution_time, compile_thread, stream, events,
      host_pc, launches, launches_at_reset, since_update>>

kernelvars ==
    <<res, render_data, pixels, pixel_sample_count, pixel_squared_luminance,
      denoiser_normals, denoiser_albedo, camera_hits, still_one_ray_active, stop_noise_threshold_count, kernel_phase, threads,
      accumulated, all_valid, traced,
      launch_inputs, runs>>

shadingvars == <<bsdf, path>>

devicevars == <<kernelvars, shadingvars>>

vars == <<hostvars, kernelvars, shadingvars>>

(***************************************************************************)
(* HIPRTRenderSettings and WorldSettings                                   *)
(***************************************************************************)
\* HIPRTRenderSettings::has_access_to_adaptive_sampling_buffers(): adaptive
\* sampling or the stop-noise threshold is active
has_access_to_adaptive_sampling_buffers(rs) ==
    rs.stop_pixel_noise_threshold > 0 \/ rs.enable_adaptive_sampling

\* The render settings of a freshly constructed renderer.
DefaultRenderSettings(adaptive) ==
    [sample_number |-> 0, frame_number |-> 0, samples_per_frame |-> 1,
     nb_bounces |-> 8,
     render_low_resolution |-> FALSE,
     render_low_resolution_scaling |-> 2,
     freeze_random |-> FALSE,
     display_NaNs |-> FALSE,
     enable_adaptive_sampling |-> adaptive,
     stop_pixel_noise_threshold |-> 0]

\* The values the user interface writes through get_render_settings() to
\* one field of the settings.
RenderSettingsEdits(rs, field) ==
    CASE field = "enable_adaptive_sampling" ->
           {[rs EXCEPT !.enable_adaptive_sampling = ~@]}
      [] field = "stop_pixel_noise_threshold" ->
           {[rs EXCEPT !.stop_pixel_noise_threshold = 1 - @]}
      [] field = "render_low_resolution" ->
           {[rs EXCEPT !.render_low_resolution = ~@]}
      [] field = "samples_per_frame" ->
           {[rs EXCEPT !.samples_per_frame = 3 - @]}

DefaultWorldSettings ==
    [ambient_light_type |-> "UNIFORM", envmap |-> 0,
     envmap_width |-> 0, envmap_height |-> 0, envmap_cdf |-> 0]

(***************************************************************************)
(* The main stream: a FIFO of operations.  An event holds the stamp (the   *)
(* number of the frame) of its last completed record and the number of     *)
(* records of it that are enqueued and not completed yet.                  *)
(***************************************************************************)
NoSnapshot ==
    [render_settings |-> DefaultRenderSettings(FALSE),
     world_settings |-> DefaultWorldSettings,
     res_x |-> 0, res_y |-> 0, refs |-> {}, after_update |-> FALSE]

EventRecordOp(e, f) ==
    [type |-> "record", frame |-> f, event |-> e, end_event |-> "",
     out |-> "", fn |-> 0, snap |-> NoSnapshot]

KernelOp(f, fn, snap) ==
    [type |-> "kernel", frame |-> f, event |-> "", end_event |-> "",
     out |-> "", fn |-> fn, snap |-> snap]

HostFuncOp(f, start, end, out) ==
    [type |-> "hostfunc", frame |-> f, event |-> start, end_event |-> end,
     out |-> out, fn |-> 0, snap |-> NoSnapshot]

\* oroEventRecord(event, stream), seen from the host: one more pending record
oroEventRecord(evs, e) ==
    [evs EXCEPT ![e].pending = @ + 1]

\* the stream reaches a record of event e enqueued by frame f
CompleteRecord(evs, e, f) ==
    [evs EXCEPT ![e] = [pending |-> @.pending - 1, stamp |-> f]]

\* oroEventElapsedTime(out, start, end): the elapsed time between the two
\* stamps; an event with a record still pending is not ready and out is
\* left as it was.
oroEventElapsedTime(evs, old, start, end) ==
    IF evs[start].pending = 0 /\ evs[end].pending = 0
    THEN <<evs[start].stamp, evs[end].stamp>>
    ELSE old

KernelOps(q) == {i \in 1..Len(q) : q[i].type = "kernel"}

\* a launch is enqueued and not completed
LaunchInFlight == KernelOps(stream) # {}

\* a launch that references buffer b is enqueued and not completed
InFlightRef(q, b) == \E i \in KernelOps(q) : b \in q[i].snap.refs

\* a stream query that reports the stream idle whatever it holds
stream_query_always_idle == TRUE

\* a stream query that never reports the stream idle
stream_query_never_idle == FALSE

\* oroStreamQuery(m_main_stream) == oroSuccess
frame_render_done == stream = <<>>

\* 0.0f: no elapsed time stored
NoTime == <<0, 0>>

(***************************************************************************)
(* GPURenderer::GPURenderer                                                *)
(***************************************************************************)
InitHost ==
    /\ m_render_width = 0
    /\ m_render_height = 0
    /\ m_render_settings \in {DefaultRenderSettings(a) : a \in BOOLEAN}
    /\ m_world_settings = DefaultWorldSettings
    \* every buffer is created empty; the two status buffers are resized to 1
    /\ element_count =
         [b \in BufferNames |-> IF b \in StatusBuffers THEN 1 ELSE 0]
    \* true_data is uploaded to the active flag; the counter is not written
    /\ dev_still_one_ray_active = 1
    /\ dev_pixels_converged_count \in BOOL01
    /\ m_status_buffers_values =
         [one_ray_active |-> 1, pixel_converged_count |-> 0]
    /\ m_last_frame_time = NoTime
    /\ m_was_last_frame_low_resolution = FALSE
    /\ m_materials = 0
    \* the path and the name the constructor sets are 0; __USE_HWI__ is
    \* removed, the device having no hardware acceleration
    /\ m_path_trace_kernel =
         [kernel_file_path |-> 0, kernel_function_name |-> 0,
          compiler_options |-> [USE_HWI |-> 0]]
    /\ m_kernel_function = 0
    /\ compile_thread_read = {m_path_trace_kernel}
    /\ recompiled_since_set = FALSE
    /\ m_last_execution_time = NoTime
    \* ThreadManager::start_thread(COMPILE_KERNEL_THREAD_KEY, compile_kernel, ...)
    /\ compile_thread = "running"
    /\ stream = <<>>
    /\ events = [e \in Events |-> [pending |-> 0, stamp |-> 0]]
    /\ host_pc = "idle"
    /\ launches = 0
    /\ launches_at_reset = 0
    /\ since_update = "dirty"

\* what every orchestrator operation leaves alone unless it says otherwise
HostFrame(changed) ==
    /\ IF "size" \in changed THEN TRUE
       ELSE UNCHANGED <<m_render_width, m_render_height>>
    /\ IF "render_settings" \in changed THEN TRUE ELSE UNCHANGED m_render_settings
    /\ IF "world_settings" \in changed THEN TRUE ELSE UNCHANGED m_world_settings
    /\ IF "element_count" \in changed THEN TRUE ELSE UNCHANGED element_count
    /\ IF "dev_status" \in changed THEN TRUE
       ELSE UNCHANGED <<dev_still_one_ray_active, dev_pixels_converged_count>>
    /\ IF "status_values" \in changed THEN TRUE
       ELSE UNCHANGED m_status_buffers_values
    /\ IF "last_frame_time" \in changed THEN TRUE ELSE UNCHANGED m_last_frame_time
    /\ IF "low_resolution" \in changed THEN TRUE
       ELSE UNCHANGED m_was_last_frame_low_resolution
    /\ IF "materials" \in changed THEN TRUE ELSE UNCHANGED m_materials
    /\ IF "stream" \in changed THEN TRUE ELSE UNCHANGED <<stream, events, launches>>
    /\ IF "host_pc" \in changed THEN TRUE ELSE UNCHANGED host_pc
    /\ IF "last_frame_time" \in changed THEN TRUE
       ELSE UNCHANGED launches_at_reset
    /\ IF "since_update" \in changed THEN TRUE
       ELSE since_update' = IF since_update = "none" THEN "clean" ELSE since_update
    /\ IF "kernel" \in changed THEN TRUE
       ELSE UNCHANGED <<m_path_trace_kernel, compile_thread_read>>
    /\ IF "kernel_function" \in changed THEN TRUE
       ELSE UNCHANGED m_kernel_function
    /\ IF "kernel" \in changed \/ "kernel_function" \in changed THEN TRUE
       ELSE UNCHANGED recompiled_since_set
    /\ UNCHANGED <<m_last_execution_time, compile_thread, devicevars>>

(***************************************************************************)
(* GPURenderer::update                                                     *)
(***************************************************************************)
\* an update() that never calls synchronize_kernel()
update_never_synchronizes(rs, ec) == FALSE

\* internal_update_adaptive_sampling_buffers: whether synchronize_kernel()
\* is called, because a statistics buffer is about to be allocated or freed
update_needs_synchronize(rs, ec) ==
    IF has_access_to_adaptive_sampling_buffers(rs)
    THEN \/ ec["pixels_squared_luminance"] = 0
         \/ ec["pixels_sample_count"] = 0
    ELSE \/ ec["pixels_squared_luminance"] > 0
         \/ ec["pixels_sample_count"] > 0

\* internal_update_adaptive_sampling_buffers: the statistics buffers it
\* resizes (those with no element) or frees (those with elements)
update_reallocated_buffers(rs, ec) ==
    IF has_access_to_adaptive_sampling_buffers(rs)
    THEN {b \in StatsBuffers : ec[b] = 0}
    ELSE {b \in StatsBuffers : ec[b] > 0}

\* an update() that frees the statistics buffers but never allocates them
update_allocates_nothing(rs, ec, w, h) ==
    IF has_access_to_adaptive_sampling_buffers(rs)
    THEN ec
    ELSE [b \in BufferNames |-> IF b \in StatsBuffers THEN 0 ELSE ec[b]]

\* an update() that allocates the statistics buffers but never frees them
update_never_frees(rs, ec, w, h) ==
    IF has_access_to_adaptive_sampling_buffers(rs)
    THEN [b \in BufferNames |->
            IF b \in StatsBuffers /\ ec[b] = 0 THEN w * h ELSE ec[b]]
    ELSE ec

\* internal_update_adaptive_sampling_buffers: the element counts it leaves
internal_update_adaptive_sampling_buffers(rs, ec, w, h) ==
    IF has_access_to_adaptive_sampling_buffers(rs)
    THEN [b \in BufferNames |->
            IF b \in StatsBuffers /\ ec[b] = 0 THEN w * h ELSE ec[b]]
    ELSE [b \in BufferNames |-> IF b \in StatsBuffers THEN 0 ELSE ec[b]]

\* the second half of update(), once synchronize_kernel() has returned or
\* was not needed
UpdateReturns ==
    /\ element_count' =
         internal_update_adaptive_sampling_buffers(
             m_render_settings, element_count, m_render_width, m_render_height)
    /\ host_pc' = "idle"
    /\ since_update' = "none"

\* update() up to its return, or up to the synchronize_kernel() it waits in
update ==
    /\ host_pc = "idle"
    \* internal_update_clear_device_status_buffers
    /\ dev_still_one_ray_active' = 0
    /\ dev_pixels_converged_count' = 0
    /\ IF update_needs_synchronize(m_render_settings, element_count)
          /\ ~frame_render_done
       THEN /\ host_pc' = "update_sync"
            /\ UNCHANGED <<element_count, since_update>>
       ELSE UpdateReturns
    /\ HostFrame({"dev_status", "element_count", "host_pc", "since_update"})

\* synchronize_kernel() returns inside update(): the stream is idle
update_synchronized ==
    /\ host_pc = "update_sync"
    /\ frame_render_done
    /\ UpdateReturns
    /\ HostFrame({"element_count", "host_pc", "since_update"})

(***************************************************************************)
(* GPURenderer::copy_status_buffers, synchronize_kernel                    *)
(***************************************************************************)
copy_status_buffers ==
    /\ host_pc = "idle"
    /\ m_status_buffers_values' =
         [one_ray_active |-> dev_still_one_ray_active,
          pixel_converged_count |-> dev_pixels_converged_count]
    /\ HostFrame({"status_values"})

\* oroStreamSynchronize(m_main_stream) returns once the stream is idle
synchronize_kernel ==
    /\ host_pc = "idle"
    /\ frame_render_done
    /\ HostFrame({})

(***************************************************************************)
(* GPURenderer::render                                                     *)
(***************************************************************************)
\* get_render_data: the buffers whose device pointers the snapshot holds
render_data_buffers(rs, ws) ==
    {"framebuffer", "normals_AOV", "albedo_AOV", "scene",
     "still_one_ray_active", "pixels_converged_count"}
    \cup (IF has_access_to_adaptive_sampling_buffers(rs)
          THEN StatsBuffers ELSE {})
    \cup (IF ws.envmap # 0 THEN {"envmap"} ELSE {})
    \cup (IF ws.envmap_cdf # 0 THEN {"envmap_cdf"} ELSE {})

\* get_render_data, with the resolution render() passes beside it
get_render_data(rs, ws, w, h, follows_update) ==
    [render_settings |-> rs, world_settings |-> ws,
     res_x |-> w, res_y |-> h,
     refs |-> render_data_buffers(rs, ws),
     after_update |-> follows_update]

\* HIPKernel::launch_timed_asynchronous: what it enqueues on the stream
launch_timed_asynchronous(f, fn, snap) ==
    << EventRecordOp("execution_start", f),
       KernelOp(f, fn, snap),
       EventRecordOp("execution_stop", f),
       HostFuncOp(f, "execution_start", "execution_stop",
                  "m_last_execution_time") >>

\* a render() that schedules its callback before recording the stop event
render_enqueues_callback_first(f, fn, snap) ==
    << EventRecordOp("frame_start", f) >>
    \o launch_timed_asynchronous(f, fn, snap)
    \o << HostFuncOp(f, "frame_start", "frame_stop", "m_last_frame_time"),
          EventRecordOp("frame_stop", f) >>

\* render(): what it enqueues on the stream, in order
render_enqueues(f, fn, snap) ==
    << EventRecordOp("frame_start", f) >>
    \o launch_timed_asynchronous(f, fn, snap)
    \o << EventRecordOp("frame_stop", f),
          HostFuncOp(f, "frame_start", "frame_stop", "m_last_frame_time") >>

\* a render() that does not join the compilation thread
render_without_join == TRUE

\* ThreadManager::join_threads(COMPILE_KERNEL_THREAD_KEY) has returned
render_joined_compile_thread == compile_thread = "finished"

\* the events an enqueued sequence records, each once more pending
RecordAll(evs, ops) ==
    [e \in Events |->
        [evs[e] EXCEPT !.pending =
            @ + Cardinality({i \in 1..Len(ops) :
                               ops[i].type = "record" /\ ops[i].event = e})]]

render ==
    /\ host_pc = "idle"
    /\ render_joined_compile_thread
    \* a launch with an empty grid is refused by the device and the
    \* renderer stops there
    /\ m_render_width > 0 /\ m_render_height > 0
    /\ LET snap == get_render_data(m_render_settings, m_world_settings,
                                   m_render_width, m_render_height,
                                   since_update = "none")
           ops == render_enqueues(launches + 1, m_kernel_function, snap)
       IN /\ stream' = stream \o ops
          /\ events' = RecordAll(events, ops)
    /\ launches' = launches + 1
    /\ m_was_last_frame_low_resolution' = m_render_settings.render_low_resolution
    /\ HostFrame({"stream", "low_resolution"})

(***************************************************************************)
(* GPURenderer::resize, reset, set_envmap, set_scene, update_materials     *)
(***************************************************************************)
\* the buffers resize() resizes
resize_buffers(rs) ==
    PerPixelBuffers
    \cup (IF has_access_to_adaptive_sampling_buffers(rs)
          THEN StatsBuffers ELSE {})

resize(new_width, new_height) ==
    /\ host_pc = "idle"
    /\ m_render_width' = new_width
    /\ m_render_height' = new_height
    /\ element_count' =
         [b \in BufferNames |->
            IF b \in resize_buffers(m_render_settings)
            THEN new_width * new_height ELSE element_count[b]]
    /\ HostFrame({"size", "element_count"})

\* a reset() that leaves samples_per_frame as the user interface set it
reset_keeps_samples_per_frame ==
    /\ host_pc = "idle"
    /\ m_render_settings' =
         [m_render_settings EXCEPT !.frame_number = 0, !.sample_number = 0]
    /\ m_last_frame_time' = NoTime
    /\ launches_at_reset' = launches
    /\ m_status_buffers_values' =
         [one_ray_active |-> 1, pixel_converged_count |-> 0]
    /\ HostFrame({"render_settings", "last_frame_time", "status_values"})

\* a reset() that also frees the per-pixel buffers
reset_frees_buffers ==
    /\ host_pc = "idle"
    /\ m_render_settings' =
         [m_render_settings EXCEPT !.frame_number = 0, !.sample_number = 0,
                                   !.samples_per_frame = 1]
    /\ m_last_frame_time' = NoTime
    /\ launches_at_reset' = launches
    /\ m_status_buffers_values' =
         [one_ray_active |-> 1, pixel_converged_count |-> 0]
    /\ element_count' =
         [b \in BufferNames |->
            IF b \in PerPixelBuffers THEN 0 ELSE element_count[b]]
    /\ HostFrame({"render_settings", "last_frame_time", "status_values",
                  "element_count"})

reset ==
    /\ host_pc = "idle"
    /\ m_render_settings' =
         [m_render_settings EXCEPT !.frame_number = 0, !.sample_number = 0,
                                   !.samples_per_frame = 1]
    \* reset_last_frame_time
    /\ m_last_frame_time' = NoTime
    /\ launches_at_reset' = launches
    \* internal_clear_m_status_buffers
    /\ m_status_buffers_values' =
         [one_ray_active |-> 1, pixel_converged_count |-> 0]
    /\ HostFrame({"render_settings", "last_frame_time", "status_values"})

\* the images set_envmap is called with: <<handle, width, height>>
EnvmapImages == {<<0, 0, 0>>, <<2, 0, 1>>, <<2, 1, 0>>, <<1, 1, 1>>}

\* a set_envmap() that drops the environment map it holds when it is given
\* an empty image
set_envmap_drops_on_empty(image) ==
    /\ host_pc = "idle"
    /\ IF image[2] = 0 \/ image[3] = 0
       THEN /\ m_world_settings' =
                 [m_world_settings EXCEPT !.ambient_light_type = "UNIFORM",
                                          !.envmap = 0,
                                          !.envmap_width = 0,
                                          !.envmap_height = 0,
                                          !.envmap_cdf = 0]
            /\ UNCHANGED element_count
       ELSE /\ element_count' =
                 [element_count EXCEPT !["envmap"] = image[2] * image[3],
                                       !["envmap_cdf"] = image[2] * image[3]]
            /\ m_world_settings' =
                 [m_world_settings EXCEPT !.envmap = image[1],
                                          !.envmap_width = image[2],
                                          !.envmap_height = image[3],
                                          !.envmap_cdf = image[1]]
    /\ HostFrame({"world_settings", "element_count"})

set_envmap(image) ==
    /\ host_pc = "idle"
    /\ IF image[2] = 0 \/ image[3] = 0
       THEN /\ m_world_settings' =
                 [m_world_settings EXCEPT !.ambient_light_type = "UNIFORM"]
            /\ UNCHANGED element_count
       ELSE \* m_envmap.init_from_image, m_envmap.compute_cdf
            /\ element_count' =
                 [element_count EXCEPT !["envmap"] = image[2] * image[3],
                                       !["envmap_cdf"] = image[2] * image[3]]
            /\ m_world_settings' =
                 [m_world_settings EXCEPT !.envmap = image[1],
                                          !.envmap_width = image[2],
                                          !.envmap_height = image[3],
                                          !.envmap_cdf = image[1]]
    /\ HostFrame({"world_settings", "element_count"})

\* set_hiprt_scene_from_scene: every buffer of the scene is resized
set_scene(scene_size) ==
    /\ host_pc = "idle"
    /\ element_count' = [element_count EXCEPT !["scene"] = scene_size]
    /\ m_materials' = 0
    /\ HostFrame({"element_count", "materials"})

\* the materials buffer is written, not reallocated
update_materials(materials) ==
    /\ host_pc = "idle"
    /\ m_materials' = materials
    /\ HostFrame({"materials"})

(***************************************************************************)
(* The user interface writing the settings, and the host advancing the     *)
(* sample count after a frame.                                             *)
(***************************************************************************)
set_render_settings(field) ==
    /\ host_pc = "idle"
    /\ m_render_settings' \in RenderSettingsEdits(m_render_settings, field)
    /\ since_update' = "dirty"
    /\ HostFrame({"render_settings", "since_update"})

set_world_settings ==
    /\ host_pc = "idle"
    /\ m_world_settings' =
         [m_world_settings EXCEPT !.ambient_light_type =
            IF @ = "UNIFORM" THEN "ENVMAP" ELSE "UNIFORM"]
    /\ HostFrame({"world_settings"})

\* RenderWindow::increment_sample_number
increment_sample_number ==
    /\ host_pc = "idle"
    /\ m_render_settings.sample_number + m_render_settings.samples_per_frame
         <= MaxSampleNumber
    /\ m_render_settings' =
         [m_render_settings EXCEPT
            !.sample_number = @ + m_render_settings.samples_per_frame,
            !.frame_number = @ + 1]
    /\ HostFrame({"render_settings"})

(***************************************************************************)
(* The device: the main stream executes what was enqueued, in order.       *)
(***************************************************************************)
\* PathTracerKernel, low-resolution branch: the settings a kernel thread
\* works with, a copy of the launch argument
kernel_thread_settings(rs) ==
    IF rs.render_low_resolution
    THEN [rs EXCEPT !.nb_bounces = 3, !.samples_per_frame = 1]
    ELSE rs

\* a kernel whose threads report converged pixels whatever their launch
\* argument says
kernel_status_outcomes_any(snap) ==
    [active : BOOLEAN, converged : 0..MaxConverged]

\* PathTracerKernel, seen by the orchestrator: what one launch does to the
\* status scalars.  A thread that finishes its sample loop writes 1 to the
\* active flag; a thread whose pixel converged or needs no sampling adds 1
\* to the counter, which the adaptive sampling controller only reports when
\* the launch has access to the statistics buffers.
kernel_status_outcomes(snap) ==
    {o \in [active : BOOLEAN, converged : 0..MaxConverged] :
        o.converged > 0 =>
            has_access_to_adaptive_sampling_buffers(
                kernel_thread_settings(snap.render_settings))}

\* HIPKernel::compute_elapsed_time_callback
compute_elapsed_time_callback(evs, old, start, end) ==
    oroEventElapsedTime(evs, old, start, end)

stream_execute ==
    /\ stream # <<>>
    /\ LET op == Head(stream) IN
         /\ stream' = Tail(stream)
         /\ events' = IF op.type = "record"
                      THEN CompleteRecord(events, op.event, op.frame)
                      ELSE events
         /\ IF op.type = "kernel"
            THEN \E o \in kernel_status_outcomes(op.snap) :
                   /\ dev_still_one_ray_active' =
                        IF o.active THEN 1 ELSE dev_still_one_ray_active
                   /\ dev_pixels_converged_count' =
                        dev_pixels_converged_count + o.converged
            ELSE UNCHANGED <<dev_still_one_ray_active, dev_pixels_converged_count>>
         /\ m_last_frame_time' =
              IF op.type = "hostfunc" /\ op.out = "m_last_frame_time"
              THEN compute_elapsed_time_callback(
                       events, m_last_frame_time, op.event, op.end_event)
              ELSE m_last_frame_time
         /\ m_last_execution_time' =
              IF op.type = "hostfunc" /\ op.out = "m_last_execution_time"
              THEN compute_elapsed_time_callback(
                       events, m_last_execution_time, op.event, op.end_event)
              ELSE m_last_execution_time
    /\ UNCHANGED <<m_render_width, m_render_height, m_render_settings,
                   m_world_settings, element_count, m_status_buffers_values,
                   m_was_last_frame_low_resolution, m_materials,
                   m_path_trace_kernel, m_kernel_function,
                   compile_thread_read, recompiled_since_set,
                   compile_thread, host_pc, launches, launches_at_reset,
                   since_update, devicevars>>

\* HIPKernelCompiler::get_additional_cache_key: a string derived from the
\* macros of the kernel's compiler options
get_additional_cache_key(kernel) ==
    <<"__USE_HWI__", kernel.compiler_options.USE_HWI>>

\* HIPKernelCompiler::compile_kernel: the entry point of the artifact of
\* this file, function and cache key (entry points are numbered from 1)
compile_kernel(kernel, cache_key) ==
    1 + cache_key[2] + 2 * kernel.kernel_function_name
      + 4 * kernel.kernel_file_path

\* HIPKernel::compile: the entry point it stores in m_kernel_function
compile(kernel) == compile_kernel(kernel, get_additional_cache_key(kernel))

\* ThreadFunctions::compile_kernel ends: HIPKernel::compile has stored the
\* compiled entry point.  The thread read the kernel's path, name and
\* options at some time while it ran, unsynchronised with the setters.
compile_thread_finishes ==
    /\ compile_thread = "running"
    /\ compile_thread' = "finished"
    /\ \E kernel \in compile_thread_read :
          m_kernel_function' = compile(kernel)
    /\ compile_thread_read' = {}
    /\ UNCHANGED <<m_render_width, m_render_height, m_render_settings,
                   m_world_settings, element_count, dev_still_one_ray_active,
                   dev_pixels_converged_count, m_status_buffers_values,
                   m_last_frame_time, m_was_last_frame_low_resolution,
                   m_materials, m_path_trace_kernel, recompiled_since_set,
                   m_last_execution_time, stream, events, host_pc, launches,
                   launches_at_reset, since_update, devicevars>>

\* the fields of the kernel the setters write
KernelFields ==
    {"kernel_file_path", "kernel_function_name", "compiler_options"}

\* the kernel once a setter has written one of its fields, each setter
\* being called with the other of two values
KernelWith(kernel, field) ==
    CASE field = "kernel_file_path" ->
           [kernel EXCEPT !.kernel_file_path = 1 - @]
      [] field = "kernel_function_name" ->
           [kernel EXCEPT !.kernel_function_name = 1 - @]
      [] field = "compiler_options" ->
           [kernel EXCEPT !.compiler_options.USE_HWI = 1 - @]

\* a setter that compiles the kernel as soon as it has written the field
set_kernel_and_compile(field) ==
    /\ host_pc = "idle"
    /\ m_path_trace_kernel' = KernelWith(m_path_trace_kernel, field)
    /\ compile_thread_read' =
         IF compile_thread = "running"
         THEN compile_thread_read \cup {m_path_trace_kernel'}
         ELSE compile_thread_read
    /\ m_kernel_function' = compile(m_path_trace_kernel')
    /\ recompiled_since_set' = FALSE
    /\ HostFrame({"kernel", "kernel_function"})

\* HIPKernel::set_kernel_file_path, set_kernel_function_name,
\* set_compiler_options (and get_compiler_options().set_macro)
set_kernel(field) ==
    /\ host_pc = "idle"
    /\ m_path_trace_kernel' = KernelWith(m_path_trace_kernel, field)
    /\ compile_thread_read' =
         IF compile_thread = "running"
         THEN compile_thread_read \cup {m_path_trace_kernel'}
         ELSE compile_thread_read
    /\ recompiled_since_set' = FALSE
    /\ HostFrame({"kernel"})

\* a recompile_trace_kernel() that keeps an entry point compiled before
recompile_reuses_entry_point ==
    /\ host_pc = "idle"
    /\ m_kernel_function' =
         IF m_kernel_function # 0 THEN m_kernel_function
         ELSE compile(m_path_trace_kernel)
    /\ recompiled_since_set' = (compile_thread = "finished")
    /\ HostFrame({"kernel_function"})

\* GPURenderer::recompile_trace_kernel
recompile_trace_kernel ==
    /\ host_pc = "idle"
    /\ m_kernel_function' = compile(m_path_trace_kernel)
    /\ recompiled_since_set' = (compile_thread = "finished")
    /\ HostFrame({"kernel_function"})

(***************************************************************************)
(* PathTracerKernel.  A colour is one channel, an exact fraction           *)
(* <<numerator, denominator>> in lowest terms.  A launch is the set of its *)
(* threads that pass the bounds check; a thread runs in two steps, the     *)
(* second being the store of its read-modify-write of the pixel.           *)
(***************************************************************************)
RECURSIVE GCD(_, _)
GCD(a, b) == IF b = 0 THEN a ELSE GCD(b, a % b)

Fraction(num, den) ==
    LET g == GCD(num, den) IN
    IF g = 0 THEN <<num, den>> ELSE <<num \div g, den \div g>>

Black == <<0, 1>>

\* ColorRGB32F operator+ with a sample's radiance
ColorAdd(c, radiance) == Fraction(c[1] + radiance * c[2], c[2])

\* a kernel that leaves the colour of a pixel that stopped as it is
keep_stopped_pixel(c, rs) == c

\* pixels[pixel_index] / sample_number * (sample_number + samples_per_frame)
rescale_stopped_pixel(c, rs) ==
    Fraction(c[1] * (rs.sample_number + rs.samples_per_frame),
             c[2] * rs.sample_number)

\* HIPKernel::launch: the threads oroModuleLaunchKernel starts, each
\* <<blockIdx, threadIdx>>, in nb_groups.x by nb_groups.y tiles of
\* tile_size_x by tile_size_y threads
GridThreadIds(w, h) ==
    ((0..(CeilDiv(w, TileSize) - 1)) \X (0..(CeilDiv(h, TileSize) - 1)))
        \X ((0..(TileSize - 1)) \X (0..(TileSize - 1)))

\* x = blockIdx.x * blockDim.x + threadIdx.x, and y alike
ThreadCoordinates(id) ==
    <<id[1][1] * TileSize + id[2][1], id[1][2] * TileSize + id[2][2]>>

\* the coordinates of the threads of the grid render() launches
GridThreads(w, h) ==
    {ThreadCoordinates(id) : id \in GridThreadIds(w, h)}

\* uint32_t pixel_index = (x + y * res.x)
LinearIndex(t, w) == t[1] + t[2] * w

\* a thread that does not return at: if (pixel_index >= res.x * res.y)
PassesBoundsCheck(t, w, h) == LinearIndex(t, w) < w * h

\* the index a thread reads and writes the buffers at: in low resolution,
\* pixel_index /= res_scaling
BufferIndex(t, rs, w) ==
    IF rs.render_low_resolution
    THEN LinearIndex(t, w) \div rs.render_low_resolution_scaling
    ELSE LinearIndex(t, w)

\* a kernel that skips only the threads off the grid in both directions
LowResolutionSkipsOffBoth(t, rs) ==
    /\ rs.render_low_resolution
    /\ t[1] % rs.render_low_resolution_scaling # 0
    /\ t[2] % rs.render_low_resolution_scaling # 0

\* a thread that returns at:
\* if (x % res_scaling != 0 || y % res_scaling != 0)
LowResolutionSkips(t, rs) ==
    /\ rs.render_low_resolution
    /\ \/ t[1] % rs.render_low_resolution_scaling # 0
       \/ t[2] % rs.render_low_resolution_scaling # 0

(***************************************************************************)
(* unsigned int arithmetic.  A 32-bit word is <<high, low>>, its two       *)
(* 16-bit halves, so that no intermediate value leaves the integers the    *)
(* model checker computes with.                                            *)
(***************************************************************************)
Half == 65536

\* the word of a small non-negative integer
ToWord(n) == <<(n \div Half) % Half, n % Half>>

RECURSIVE Xor16(_, _)
Xor16(a, b) ==
    IF a = 0 THEN b
    ELSE IF b = 0 THEN a
    ELSE 2 * Xor16(a \div 2, b \div 2) + (((a % 2) + (b % 2)) % 2)

\* u ^ v
WordXor(u, v) == <<Xor16(u[1], v[1]), Xor16(u[2], v[2])>>

RECURSIVE Pow2(_)
Pow2(k) == IF k = 0 THEN 1 ELSE 2 * Pow2(k - 1)

\* u >> k, for 0 < k <= 16
WordShr(u, k) ==
    IF k = 16 THEN <<0, u[1]>>
    ELSE <<u[1] \div Pow2(k),
           (u[2] \div Pow2(k)) + (u[1] % Pow2(k)) * Pow2(16 - k)>>

\* a * b modulo 2^16, for two halves
Mul16(a, b) ==
    (a * (b % 256) + ((a * (b \div 256)) % 256) * 256) % Half

\* the high half of a * b, for two halves: (a * b) / 2^16
Mul16High(a, b) ==
    LET p0 == a * (b % 256)
        p1 == a * (b \div 256)
        low == (p0 % Half) + (p1 % 256) * 256
    IN (p0 \div Half) + (p1 \div 256) + (low \div Half)

\* u * v, wrapping at 2^32
WordMul(u, v) ==
    <<(Mul16High(u[2], v[2]) + Mul16(u[1], v[2]) + Mul16(u[2], v[1])) % Half,
      Mul16(u[2], v[2])>>

\* u + v, wrapping at 2^32
WordAdd(u, v) ==
    <<(u[1] + v[1] + ((u[2] + v[2]) \div Half)) % Half, (u[2] + v[2]) % Half>>

\* unsigned int wang_hash(unsigned int seed)
wang_hash(seed) ==
    LET s1 == WordXor(WordXor(seed, ToWord(61)), WordShr(seed, 16))
        s2 == WordMul(s1, ToWord(9))
        s3 == WordXor(s2, WordShr(s2, 4))
        \* 0x27d4eb2d
        s4 == WordMul(s3, <<10196, 60205>>)
    IN WordXor(s4, WordShr(s4, 15))

\* the seed of the thread's Xorshift32Generator
Seed(rs, pixel_index) ==
    IF rs.freeze_random
    THEN wang_hash(WordAdd(ToWord(pixel_index), ToWord(1)))
    ELSE wang_hash(WordMul(WordAdd(ToWord(pixel_index), ToWord(1)),
                           WordAdd(ToWord(rs.sample_number), ToWord(1))))

\* the bounce loop of one sample of a thread is a function of the seed,
\* of the thread's coordinates and of the rank of the sample in the
\* generator's sequence: traced holds the values of that function that a
\* thread computed already
TraceKey(rs, t, pixel_index, sample) == <<Seed(rs, pixel_index), t, sample>>

\* the outcome of the bounce loop for one sample: a radiance, or a value
\* the sanity check rejects (NaN, negative), and the shading normal the
\* camera ray met: 1 or -1 along one axis, 0 for a camera ray that missed
SampleOutcomes ==
    [invalid : {FALSE}, ray_color : 0..MaxRadiance, normal : camera_hits]
        \cup {[invalid |-> TRUE, ray_color |-> 0, normal |-> 0]}

\* the samples a thread can compute: those the bounce loop gave already
\* for the same seed, coordinates and rank
TracedSamples(rs, t, pixel_index) ==
    {samples \in [1..rs.samples_per_frame -> SampleOutcomes] :
        \A i \in 1..rs.samples_per_frame :
            TraceKey(rs, t, pixel_index, i) \in DOMAIN traced =>
                samples[i] = traced[TraceKey(rs, t, pixel_index, i)]}

Remember(rs, t, pixel_index, samples) ==
    LET keys == {TraceKey(rs, t, pixel_index, i) :
                    i \in 1..rs.samples_per_frame}
    IN [k \in DOMAIN traced \cup keys |->
          IF k \in DOMAIN traced THEN traced[k]
          ELSE samples[CHOOSE i \in 1..rs.samples_per_frame :
                          TraceKey(rs, t, pixel_index, i) = k]]

\* the per-pixel buffers the kernel accumulates into
KernelBuffers ==
    <<pixels, pixel_sample_count, pixel_squared_luminance,
      denoiser_normals, denoiser_albedo>>

RECURSIVE SumOfSamples(_, _)
SumOfSamples(samples, n) ==
    IF n = 0 THEN 0 ELSE samples[n].ray_color + SumOfSamples(samples, n - 1)

\* denoiser_normal, the sum over the samples of a frame
RECURSIVE SumOfNormals(_, _)
SumOfNormals(samples, n) ==
    IF n = 0 THEN 0 ELSE samples[n].normal + SumOfNormals(samples, n - 1)

\* denoiser_albedo, the sum over the samples of a frame: the base colour
\* of the scene's material is 1
RECURSIVE SumOfAlbedos(_, _)
SumOfAlbedos(samples, n) ==
    IF n = 0 THEN 0
    ELSE (IF samples[n].normal # 0 THEN 1 ELSE 0) + SumOfAlbedos(samples, n - 1)

RECURSIVE SumOfSquares(_, _)
SumOfSquares(samples, n) ==
    IF n = 0 THEN 0
    ELSE samples[n].ray_color * samples[n].ray_color
           + SumOfSquares(samples, n - 1)

\* adaptive_sampling(render_data, pixel_index, pixel_converged): the
\* decisions it can take for a pixel whose sample count is count, with the
\* sample count it leaves.  A pixel that stopped has a negative count.
adaptive_sampling(rs, count) ==
    IF ~has_access_to_adaptive_sampling_buffers(rs)
    THEN {[sampling_needed |-> TRUE, pixel_converged |-> FALSE,
           sample_count |-> count]}
    ELSE IF count < 0
    THEN {[sampling_needed |-> FALSE, pixel_converged |-> FALSE,
           sample_count |-> count]}
    ELSE {[sampling_needed |-> TRUE, pixel_converged |-> FALSE,
           sample_count |-> count]}
         \cup (IF count > 0
               THEN {[sampling_needed |-> FALSE, pixel_converged |-> TRUE,
                      sample_count |-> 0 - 1],
                     [sampling_needed |-> TRUE, pixel_converged |-> TRUE,
                      sample_count |-> count]}
               ELSE {})

\* A denoiser normal is <<x, y, kind>>: the vector (x, y, y), as it is when
\* kind is "raw", divided by its length when kind is "unit"; <<0, 1,
\* "tilted">> is a unit vector off the axis of the shading normals whose
\* components are not rational.
\* make_float3(1.0f, 1.0f, 1.0f), the value reset_render writes
ResetNormal == <<1, 1, "raw">>

ZeroNormal == <<0, 0, "raw">>

\* hippt::length(v) is a rational number
RationalLength(v) == v[3] = "raw" \/ v[2] = 0

\* the x component of a vector of rational length
NormalX(v) ==
    IF v[3] = "raw" THEN v[1]
    ELSE IF v[1] > 0 THEN 1 ELSE IF v[1] < 0 THEN 0 - 1 ELSE 0

\* accumulated_normal, times samples_per_frame * (frame_number + 1):
\* denoiser_normals[pixel_index] * frame_number + denoiser_normal / samples_per_frame
accumulated_normal(old, frame_number, normal_sum, samples_per_frame) ==
    IF frame_number = 0 \/ old = ZeroNormal THEN <<normal_sum, 0, "raw">>
    ELSE IF RationalLength(old)
    THEN <<NormalX(old) * frame_number * samples_per_frame + normal_sum,
           (IF old[3] = "raw" THEN old[2] ELSE 0)
              * frame_number * samples_per_frame,
           "raw">>
    ELSE <<0, 1, "tilted">>

\* accumulated_normal / normal_length
Normalized(v) ==
    IF v[3] = "tilted" THEN v
    ELSE LET g == GCD(IF v[1] < 0 THEN 0 - v[1] ELSE v[1],
                      IF v[2] < 0 THEN 0 - v[2] ELSE v[2])
         IN IF v[2] = 0 THEN <<v[1] \div g, 0, "unit">>
            ELSE IF v[1] = 0 THEN <<0, v[2] \div g, "tilted">>
            ELSE <<v[1] \div g, v[2] \div g, "unit">>

\* lines 337-341: the normal the kernel leaves, the buffer holding old
store_denoiser_normal(old, frame_number, normal_sum, samples_per_frame) ==
    LET acc == accumulated_normal(old, frame_number, normal_sum,
                                  samples_per_frame)
    IN IF acc # ZeroNormal THEN Normalized(acc) ELSE old

\* line 335: (denoiser_albedo[pixel_index] * frame_number
\*            + denoiser_albedo / samples_per_frame) / (frame_number + 1)
store_denoiser_albedo(old, frame_number, albedo_sum, samples_per_frame) ==
    Fraction(old[1] * frame_number * samples_per_frame + albedo_sum * old[2],
             old[2] * samples_per_frame * (frame_number + 1))

\* ColorRGB32F(1.0e15f, 0.0f, 1.0e15f), written as a radiance no sum of
\* samples of the model reaches
NaNColor == 1000

\* debug_set_final_color: the colour it writes at y * res_x + x
debug_set_final_color(rs) ==
    IF rs.sample_number = 0 THEN <<NaNColor, 1>>
    ELSE <<NaNColor * rs.sample_number, 1>>

\* a kernel that sets the active flag before the sanity check
still_one_ray_active_set_early(invalid) == 1

\* lines 311-319: still_one_ray_active[0] = 1 once the sample loop is left
\* with no sample failing the sanity check
still_one_ray_active_after(invalid) ==
    IF invalid THEN still_one_ray_active ELSE 1

\* a thread leaves the kernel: at the low-resolution return ("skipped"),
\* at the return of a pixel that needs no sampling ("stopped"), at the
\* return after a failed sanity check ("invalid"), or at its last line
thread_returns(t, outcome, converged) ==
    threads' = [threads EXCEPT ![t].pc = "done", ![t].outcome = outcome,
                               ![t].pixel_converged = converged]

\* PathTracerKernel, from its first line to the load of
\* render_data.buffers.pixels[pixel_index] += final_color
PathTracerKernel(t) ==
    /\ kernel_phase = "running"
    /\ t \in DOMAIN threads
    /\ threads[t].pc = "start"
    /\ LET rs == kernel_thread_settings(render_data)
           pixel_index == BufferIndex(t, rs, res[1])
           access == has_access_to_adaptive_sampling_buffers(rs)
           \* reset_render
           first_frame == rs.sample_number = 0
           color == IF first_frame THEN Black ELSE pixels[pixel_index]
           count == IF first_frame /\ access THEN 0
                    ELSE pixel_sample_count[pixel_index]
           luminance == IF first_frame /\ access THEN 0
                        ELSE pixel_squared_luminance[pixel_index]
           normals == IF first_frame
                      THEN [denoiser_normals EXCEPT ![pixel_index] = ResetNormal]
                      ELSE denoiser_normals
           albedo == IF first_frame
                     THEN [denoiser_albedo EXCEPT ![pixel_index] = Black]
                     ELSE denoiser_albedo
       IN
       IF LowResolutionSkips(t, rs)
       THEN /\ thread_returns(t, "skipped", FALSE)
            /\ UNCHANGED <<pixels, pixel_sample_count, pixel_squared_luminance,
                           denoiser_normals, denoiser_albedo,
                           still_one_ray_active, stop_noise_threshold_count,
                           accumulated, all_valid, traced>>
       ELSE \E decision \in adaptive_sampling(rs, count) :
              /\ stop_noise_threshold_count' =
                   IF decision.pixel_converged \/ ~decision.sampling_needed
                   THEN stop_noise_threshold_count + 1
                   ELSE stop_noise_threshold_count
              /\ denoiser_normals' = normals
              /\ denoiser_albedo' = albedo
              /\ IF ~decision.sampling_needed
                 THEN /\ pixels' = [pixels EXCEPT ![pixel_index] =
                                       rescale_stopped_pixel(color, rs)]
                      /\ pixel_sample_count' =
                           [pixel_sample_count EXCEPT ![pixel_index] =
                               decision.sample_count]
                      /\ pixel_squared_luminance' =
                           [pixel_squared_luminance EXCEPT ![pixel_index] =
                               luminance]
                      /\ thread_returns(t, "stopped", decision.pixel_converged)
                      /\ UNCHANGED <<still_one_ray_active, accumulated,
                                     all_valid, traced>>
                 ELSE \E samples \in TracedSamples(rs, t, pixel_index) :
                        /\ traced' = Remember(rs, t, pixel_index, samples)
                        /\ pixel_squared_luminance' =
                             [pixel_squared_luminance EXCEPT ![pixel_index] =
                                 IF access /\ \A i \in DOMAIN samples :
                                                  ~samples[i].invalid
                                 THEN luminance + SumOfSquares(
                                          samples, rs.samples_per_frame)
                                 ELSE luminance]
                        /\ pixel_sample_count' =
                             [pixel_sample_count EXCEPT ![pixel_index] =
                                 IF access /\ \A i \in DOMAIN samples :
                                                  ~samples[i].invalid
                                 THEN count + rs.samples_per_frame
                                 ELSE count]
                        /\ still_one_ray_active' =
                             still_one_ray_active_after(
                                 \E i \in DOMAIN samples : samples[i].invalid)
                        /\ IF \E i \in DOMAIN samples : samples[i].invalid
                           THEN \* sanity_check fails: the thread returns
                                /\ pixels' =
                                     IF rs.display_NaNs
                                     THEN [[pixels EXCEPT ![pixel_index] = color]
                                             EXCEPT ![LinearIndex(t, res[1])] =
                                                 debug_set_final_color(rs)]
                                     ELSE [pixels EXCEPT ![pixel_index] = color]
                                /\ all_valid' = FALSE
                                /\ thread_returns(t, "invalid",
                                                  decision.pixel_converged)
                                /\ UNCHANGED accumulated
                           ELSE LET final_color ==
                                      SumOfSamples(samples, rs.samples_per_frame)
                                IN
                                /\ pixels' = [pixels EXCEPT ![pixel_index] = color]
                                /\ threads' =
                                     [threads EXCEPT ![t] =
                                         [pc |-> "store",
                                          outcome |-> "sampled",
                                          pixel_converged |->
                                              decision.pixel_converged,
                                          pixel_index |-> pixel_index,
                                          loaded |-> color,
                                          final_color |-> final_color,
                                          denoiser_normal |->
                                              SumOfNormals(samples,
                                                  rs.samples_per_frame),
                                          denoiser_albedo |->
                                              SumOfAlbedos(samples,
                                                  rs.samples_per_frame)]]
                                /\ accumulated' =
                                     [accumulated EXCEPT ![pixel_index] =
                                         [sum |-> @.sum + final_color,
                                          samples |-> @.samples
                                                        + rs.samples_per_frame]]
                                /\ UNCHANGED all_valid
    /\ UNCHANGED <<res, render_data, camera_hits, kernel_phase, launch_inputs,
                   runs, hostvars, shadingvars>>

\* PathTracerKernel: the store of
\* render_data.buffers.pixels[pixel_index] += final_color, and the lines
\* after it
PathTracerKernel_store(t) ==
    /\ kernel_phase = "running"
    /\ t \in DOMAIN threads
    /\ threads[t].pc = "store"
    /\ LET rs == kernel_thread_settings(render_data)
           pixel_index == threads[t].pixel_index
       IN /\ pixels' = [pixels EXCEPT ![pixel_index] =
                           ColorAdd(threads[t].loaded, threads[t].final_color)]
          /\ denoiser_albedo' =
               [denoiser_albedo EXCEPT ![pixel_index] =
                   store_denoiser_albedo(@, rs.frame_number,
                       threads[t].denoiser_albedo, rs.samples_per_frame)]
          /\ denoiser_normals' =
               [denoiser_normals EXCEPT ![pixel_index] =
                   store_denoiser_normal(@, rs.frame_number,
                       threads[t].denoiser_normal, rs.samples_per_frame)]
    /\ threads' = [threads EXCEPT ![t].pc = "done"]
    /\ UNCHANGED <<res, render_data, pixel_sample_count,
                   pixel_squared_luminance, camera_hits, still_one_ray_active,
                   stop_noise_threshold_count, kernel_phase, accumulated,
                   all_valid, traced, launch_inputs, runs, hostvars,
                   shadingvars>>

NoThread == [pc |-> "start", outcome |-> "none", pixel_converged |-> FALSE,
             pixel_index |-> 0, loaded |-> Black, final_color |-> 0,
             denoiser_normal |-> 0, denoiser_albedo |-> 0]

\* the host calls update() and render(): the status scalars are cleared
\* and the grid is launched
kernel_launch ==
    /\ kernel_phase = "idle"
    /\ render_data.sample_number + render_data.samples_per_frame
         <= MaxSampleNumber
    /\ kernel_phase' = "running"
    /\ threads' = [t \in {u \in GridThreads(res[1], res[2]) :
                            PassesBoundsCheck(u, res[1], res[2])} |-> NoThread]
    /\ still_one_ray_active' = 0
    /\ stop_noise_threshold_count' = 0
    /\ launch_inputs' = KernelBuffers
    /\ UNCHANGED <<res, render_data, pixels, pixel_sample_count,
                   pixel_squared_luminance, denoiser_normals, denoiser_albedo,
                   camera_hits, accumulated, all_valid, traced,
                   runs, hostvars, shadingvars>>

\* every thread of the launch has returned; the host advances the sample
\* number by samples_per_frame (RenderWindow::increment_sample_number)
kernel_frame_done ==
    /\ kernel_phase = "running"
    /\ \A t \in DOMAIN threads : threads[t].pc = "done"
    /\ kernel_phase' = "idle"
    /\ render_data' =
         [render_data EXCEPT
            !.sample_number = @ + render_data.samples_per_frame,
            !.frame_number = @ + 1]
    /\ runs' = IF render_data.freeze_random
               THEN Append(runs, [settings |-> render_data,
                                  before |-> launch_inputs,
                                  after |-> KernelBuffers])
               ELSE runs
    /\ UNCHANGED <<res, pixels, pixel_sample_count, pixel_squared_luminance,
                   denoiser_normals, denoiser_albedo, camera_hits,
                   still_one_ray_active, stop_noise_threshold_count, threads,
                   accumulated, all_valid, traced, launch_inputs, hostvars,
                   shadingvars>>

\* the host calls reset() between two launches: the next launch renders
\* sample 0 again
kernel_reset ==
    /\ kernel_phase = "idle"
    /\ render_data' =
         [render_data EXCEPT !.frame_number = 0, !.sample_number = 0,
                             !.samples_per_frame = 1]
    /\ UNCHANGED <<res, pixels, pixel_sample_count, pixel_squared_luminance,
                   denoiser_normals, denoiser_albedo, camera_hits,
                   still_one_ray_active, stop_noise_threshold_count,
                   kernel_phase, threads, accumulated, all_valid, traced,
                   launch_inputs, runs, hostvars, shadingvars>>

(***************************************************************************)
(* CookTorrance.h.  Directions are unit vectors with rational components,  *)
(* written five times their size; a float result is kept as what the claim *)
(* distinguishes of it: "zero", "positive", or "nan".                      *)
(***************************************************************************)
Directions ==
    {<<5, 0>>, <<0, 5>>, <<3, 4>>, <<4, 3>>,
     <<0 - 5, 0>>, <<0, 0 - 5>>, <<0 - 3, 4>>, <<3, 0 - 4>>, <<0 - 3, 0 - 4>>,
     <<0 - 4, 3>>, <<4, 0 - 3>>, <<0 - 4, 0 - 3>>}

\* hippt::dot
Dot(a, b) == a[1] * b[1] + a[2] * b[2]

\* hippt::max(0.0f, d)
Max0(d) == IF d > 0 THEN d ELSE 0

\* GGX_normal_distribution(alpha, NoH) for a roughness above 0
GGX_normal_distribution(NoH) == "positive"

\* D * NoH / (4.0f * VoH): 0 / 0 is NaN
PdfValue(D, NoH, VoH) ==
    IF VoH = 0 THEN (IF NoH = 0 THEN "nan" ELSE "positive")
    ELSE IF NoH = 0 THEN "zero" ELSE D

\* cook_torrance_brdf_pdf: the halfway vector is normalize(view + light),
\* of the direction of view + light, and NaN when view + light is zero
cook_torrance_brdf_pdf(view_direction, to_light_direction, surface_normal) ==
    LET sum == <<view_direction[1] + to_light_direction[1],
                 view_direction[2] + to_light_direction[2]>>
        VoH == Max0(Dot(view_direction, sum))
        NoH == Max0(Dot(surface_normal, sum))
    IN IF sum = <<0, 0>> THEN "nan"
       ELSE PdfValue(GGX_normal_distribution(NoH), NoH, VoH)

\* the cosines both functions compute, each up to a positive factor
Cosines(view_direction, to_light_direction, halfway_vector, surface_normal) ==
    [NoV |-> Max0(Dot(surface_normal, view_direction)),
     NoL |-> Max0(Dot(surface_normal, to_light_direction)),
     NoH |-> Max0(Dot(surface_normal, halfway_vector)),
     VoH |-> Max0(Dot(halfway_vector, view_direction))]

\* cook_torrance_brdf: diffuse_part + specular_part inside the if, which
\* is above 0 for a material with a base colour; black outside of it
cook_torrance_brdf(to_light_direction, view_direction, surface_normal) ==
    LET sum == <<view_direction[1] + to_light_direction[1],
                 view_direction[2] + to_light_direction[2]>>
        c == Cosines(view_direction, to_light_direction, sum, surface_normal)
    IN IF sum # <<0, 0>> /\ c.NoV > 0 /\ c.NoL > 0 /\ c.NoH > 0
       THEN "positive" ELSE "zero"

\* 2.0f * dot(microfacet_normal, view_direction) * microfacet_normal
\*     - view_direction, before it is normalized
Reflect(microfacet_normal, view_direction) ==
    LET d == 2 * Dot(microfacet_normal, view_direction)
    IN <<d * microfacet_normal[1] - 25 * view_direction[1],
         d * microfacet_normal[2] - 25 * view_direction[2]>>

\* cook_torrance_brdf_importance_sample, from the microfacet normal that
\* the two random numbers gave, brought to the space of the surface normal
cook_torrance_brdf_importance_sample(view_direction, surface_normal, microfacet_normal) ==
    LET to_light_direction == Reflect(microfacet_normal, view_direction)
        c == Cosines(view_direction, to_light_direction, microfacet_normal,
                     surface_normal)
        inside == c.NoV > 0 /\ c.NoL > 0 /\ c.NoH > 0
    IN IF Dot(microfacet_normal, surface_normal) < 0
       THEN [brdf_color |-> "zero", pdf |-> "zero", below |-> TRUE,
             cosines |-> c]
       ELSE [brdf_color |-> IF inside THEN "positive" ELSE "zero",
             pdf |-> IF inside
                     THEN PdfValue(GGX_normal_distribution(c.NoH), c.NoH, c.VoH)
                     ELSE "zero",
             below |-> FALSE, cosines |-> c]

NoBsdfCall ==
    [function |-> "none", brdf_color |-> "zero", pdf |-> "zero",
     below |-> FALSE, cosines |-> [NoV |-> 0, NoL |-> 0, NoH |-> 0, VoH |-> 0]]

\* bsdf evaluation: cook_torrance_brdf with cook_torrance_brdf_pdf
evaluate_bsdf(view_direction, to_light_direction, surface_normal) ==
    /\ bsdf' =
         [function |-> "evaluate",
          brdf_color |-> cook_torrance_brdf(to_light_direction, view_direction,
                                            surface_normal),
          pdf |-> cook_torrance_brdf_pdf(view_direction, to_light_direction,
                                         surface_normal),
          below |-> FALSE,
          cosines |-> Cosines(view_direction, to_light_direction,
                              <<view_direction[1] + to_light_direction[1],
                                view_direction[2] + to_light_direction[2]>>,
                              surface_normal)]
    /\ UNCHANGED <<hostvars, kernelvars, path>>

sample_bsdf(view_direction, surface_normal, microfacet_normal) ==
    /\ bsdf' =
         [function |-> "sample"] @@
         cook_torrance_brdf_importance_sample(view_direction, surface_normal,
                                              microfacet_normal)
    /\ UNCHANGED <<hostvars, kernelvars, path>>

(***************************************************************************)
(* The sample loop and the bounce loop of one thread, an iteration at a    *)
(* time.  throughput and ray count the updates of ray_payload.throughput   *)
(* and of the ray; rays counts the calls of trace_ray in the sample.       *)
(***************************************************************************)
\* RayPayload ray_payload: a new payload is in state BOUNCE
RayPayloadDefault == "BOUNCE"

\* what bsdf_dispatcher_sample can return in brdf_pdf
PdfValues == (0 - 1)..1

NoPath ==
    [phase |-> "none", launched_low_resolution |-> FALSE,
     launched_nb_bounces |-> 0, nb_bounces |-> 0, samples_per_frame |-> 0,
     sample |-> 0, bounce |-> 0, next_ray_state |-> RayPayloadDefault,
     rays |-> 0, throughput |-> 0, ray |-> 0,
     intersection_found |-> FALSE, brdf_pdf |-> 1]

\* the thread reaches the sample loop with the settings its kernel works
\* with
path_start(rs) ==
    /\ path.phase = "none"
    /\ path' = [NoPath EXCEPT
                  !.phase = "sample",
                  !.launched_low_resolution = rs.render_low_resolution,
                  !.launched_nb_bounces = rs.nb_bounces,
                  !.nb_bounces = kernel_thread_settings(rs).nb_bounces,
                  !.samples_per_frame =
                      kernel_thread_settings(rs).samples_per_frame]
    /\ UNCHANGED <<hostvars, kernelvars, bsdf>>

\* for (int sample = 0; sample < samples_per_frame; sample++): the camera
\* ray and a new payload, or the end of the loop
path_sample ==
    /\ path.phase = "sample"
    /\ path' = IF path.sample < path.samples_per_frame
               THEN [path EXCEPT !.phase = "bounce", !.bounce = 0,
                                 !.next_ray_state = RayPayloadDefault,
                                 !.rays = 0, !.throughput = 0, !.ray = 0,
                                 !.intersection_found = FALSE, !.brdf_pdf = 1]
               ELSE [path EXCEPT !.phase = "done"]
    /\ UNCHANGED <<hostvars, kernelvars, bsdf>>

\* an intersection whose bsdf sample is used whatever its pdf
bounce_hit_unchecked(p, pdf) ==
    [p EXCEPT !.rays = @ + 1, !.intersection_found = TRUE, !.brdf_pdf = pdf,
              !.throughput = @ + 1, !.ray = @ + 1,
              !.next_ray_state = "BOUNCE", !.bounce = @ + 1]

\* if (intersection_found): break when brdf_pdf <= 0, else the throughput
\* and the ray are updated and the state is BOUNCE
bounce_hit(p, pdf) ==
    IF pdf <= 0
    THEN [p EXCEPT !.rays = @ + 1, !.intersection_found = TRUE,
                   !.brdf_pdf = pdf, !.phase = "check"]
    ELSE [p EXCEPT !.rays = @ + 1, !.intersection_found = TRUE,
                   !.brdf_pdf = pdf,
                   !.throughput = @ + 1, !.ray = @ + 1,
                   !.next_ray_state = "BOUNCE", !.bounce = @ + 1]

\* else: the sky colour is added and the state is MISSED
bounce_miss(p) ==
    [p EXCEPT !.rays = @ + 1, !.intersection_found = FALSE,
              !.next_ray_state = "MISSED", !.bounce = @ + 1]

\* for (int bounce = 0; bounce < nb_bounces; bounce++): one iteration, or
\* the end of the loop
path_bounce ==
    /\ path.phase = "bounce"
    /\ \E intersection_found \in BOOLEAN, pdf \in PdfValues :
          path' =
            IF path.bounce >= path.nb_bounces
            THEN [path EXCEPT !.phase = "check"]
            ELSE IF path.next_ray_state = "BOUNCE"
            THEN IF intersection_found
                 THEN bounce_hit(path, pdf)
                 ELSE bounce_miss(path)
            ELSE IF path.next_ray_state = "MISSED"
            THEN [path EXCEPT !.phase = "check"]
            ELSE [path EXCEPT !.bounce = @ + 1]
    /\ UNCHANGED <<hostvars, kernelvars, bsdf>>

\* sanity_check: the thread returns, or goes on with the next sample
path_sample_end ==
    /\ path.phase = "check"
    /\ \E invalid \in BOOLEAN :
          path' = IF invalid
                  THEN [path EXCEPT !.phase = "done"]
                  ELSE [path EXCEPT !.phase = "sample", !.sample = @ + 1]
    /\ UNCHANGED <<hostvars, kernelvars, bsdf>>

KernelResolutions == (1..KernelMaxWidth) \X (1..KernelMaxHeight)

\* no launch yet, at resolution r with settings rs; the colour buffer holds
\* what the allocation left in it
KernelIdle(r, rs, garbage, hits) ==
    /\ res = r
    /\ render_data = rs
    /\ pixels = [i \in 0..(r[1] * r[2] - 1) |-> garbage]
    /\ pixel_sample_count = [i \in 0..(r[1] * r[2] - 1) |-> 0]
    /\ pixel_squared_luminance = [i \in 0..(r[1] * r[2] - 1) |-> 0]
    /\ denoiser_normals = [i \in 0..(r[1] * r[2] - 1) |-> <<garbage[1], 0, "raw">>]
    /\ denoiser_albedo = [i \in 0..(r[1] * r[2] - 1) |-> garbage]
    /\ camera_hits = hits
    /\ still_one_ray_active = 1
    /\ stop_noise_threshold_count = 0
    /\ kernel_phase = "idle"
    /\ threads = << >>
    /\ accumulated = [i \in 0..(r[1] * r[2] - 1) |-> [sum |-> 0, samples |-> 0]]
    /\ all_valid = TRUE
    /\ traced = << >>
    /\ launch_inputs = KernelBuffers
    /\ runs = << >>
    /\ bsdf = NoBsdfCall
    /\ path = NoPath

(***************************************************************************)
(* Spec: the orchestrator, the stream and the compilation thread.          *)
(***************************************************************************)
Init ==
    /\ InitHost
    /\ KernelIdle(<<1, 1>>, DefaultRenderSettings(FALSE), Black, {0})

Next ==
    \/ update
    \/ update_synchronized
    \/ launches < MaxLaunches /\ render
    \/ copy_status_buffers
    \/ synchronize_kernel
    \/ \E w \in Widths, h \in Heights : resize(w, h)
    \/ set_render_settings("enable_adaptive_sampling")
    \/ stream_execute
    \/ compile_thread_finishes

Spec == Init /\ [][Next]_vars

(***************************************************************************)
(* SceneSpec: the operations on the scene, the environment map and the     *)
(* world settings, at one resolution.                                      *)
(***************************************************************************)
SceneNext ==
    \/ update
    \/ update_synchronized
    \/ launches < MaxLaunches /\ render
    \/ resize(1, 1)
    \/ \E image \in EnvmapImages : set_envmap(image)
    \/ set_scene(1)
    \/ \E m \in BOOL01 : update_materials(m)
    \/ set_render_settings("enable_adaptive_sampling")
    \/ set_world_settings
    \/ stream_execute
    \/ compile_thread_finishes

SceneSpec == Init /\ [][SceneNext]_vars

(***************************************************************************)
(* SettingsSpec: the sample counters and the per-frame settings, at one    *)
(* resolution.                                                             *)
(***************************************************************************)
SettingsNext ==
    \/ launches < MaxLaunches /\ render
    \/ resize(1, 1)
    \/ reset
    \/ increment_sample_number
    \/ \E field \in {"render_low_resolution", "samples_per_frame"} :
          set_render_settings(field)
    \/ copy_status_buffers
    \/ stream_execute
    \/ compile_thread_finishes

SettingsSpec == Init /\ [][SettingsNext]_vars

(***************************************************************************)
(* SnapshotSpec: the render and world settings edited while launches are   *)
(* in flight, at one resolution.                                           *)
(***************************************************************************)
SnapshotNext ==
    \/ launches < MaxFrames /\ render
    \/ resize(1, 1)
    \/ \E field \in {"stop_pixel_noise_threshold", "render_low_resolution"} :
          set_render_settings(field)
    \/ set_world_settings
    \/ stream_execute
    \/ compile_thread_finishes

SnapshotSpec == Init /\ [][SnapshotNext]_vars

(***************************************************************************)
(* KernelSpec: frame after frame of PathTracerKernel at one resolution,    *)
(* the orchestrator staying in one of the states it is built in.           *)
(***************************************************************************)
KernelInit ==
    /\ InitHost
    /\ m_render_settings = DefaultRenderSettings(FALSE)
    /\ dev_pixels_converged_count = 0
    /\ \E r \in KernelResolutions, adaptive \in BOOLEAN, low \in BOOLEAN,
          spf \in {1, 2}, garbage \in {Black, <<1, 1>>} :
          KernelIdle(r,
                     [DefaultRenderSettings(adaptive) EXCEPT
                         !.samples_per_frame = spf,
                         !.render_low_resolution = low],
                     garbage, {0})

KernelNext ==
    \/ kernel_launch
    \/ \E t \in DOMAIN threads : PathTracerKernel(t)
    \/ \E t \in DOMAIN threads : PathTracerKernel_store(t)
    \/ kernel_frame_done

KernelSpec == KernelInit /\ [][KernelNext]_vars

(***************************************************************************)
(* LiveSpec: frames submitted to a device that keeps executing its         *)
(* stream: an operation at the head of the stream is executed eventually,  *)
(* whatever the control thread does or does not do.                        *)
(***************************************************************************)
LiveNext ==
    \/ launches < MaxFrames /\ render
    \/ resize(1, 1)
    \/ set_render_settings("render_low_resolution")
    \/ copy_status_buffers
    \/ synchronize_kernel
    \/ stream_execute
    \/ compile_thread_finishes

LiveSpec == Init /\ [][LiveNext]_vars /\ WF_vars(stream_execute)

(***************************************************************************)
(* CompileSpec: the kernel's setters, recompile_trace_kernel and render.   *)
(***************************************************************************)
CompileNext ==
    \/ \E field \in KernelFields : set_kernel(field)
    \/ recompile_trace_kernel
    \/ launches < MaxLaunches /\ render
    \/ resize(1, 1)
    \/ stream_execute
    \/ compile_thread_finishes

CompileSpec == Init /\ [][CompileNext]_vars

(***************************************************************************)
(* SeedSpec: launches with freeze_random set, the host calling reset()     *)
(* between two of them or not, each launch recorded with the buffers it    *)
(* found and the buffers it left.                                          *)
(***************************************************************************)
SeedInit ==
    /\ InitHost
    /\ m_render_settings = DefaultRenderSettings(FALSE)
    /\ dev_pixels_converged_count = 0
    /\ \E r \in KernelResolutions, low \in BOOLEAN :
          KernelIdle(r,
                     [DefaultRenderSettings(FALSE) EXCEPT
                         !.freeze_random = TRUE,
                         !.render_low_resolution = low],
                     Black, {0})

SeedNext ==
    \/ Len(runs) < MaxRuns /\ kernel_launch
    \/ \E t \in DOMAIN threads : PathTracerKernel(t)
    \/ \E t \in DOMAIN threads : PathTracerKernel_store(t)
    \/ kernel_frame_done
    \/ kernel_reset

SeedSpec == SeedInit /\ [][SeedNext]_vars

(***************************************************************************)
(* GridSpec: the grid of one launch, at resolutions of more than one tile  *)
(* and of widths and heights that are not a multiple of the tile size.     *)
(***************************************************************************)
GridResolutions == (1..MaxGridWidth) \X (1..MaxGridHeight)

GridInit ==
    /\ InitHost
    /\ m_render_settings = DefaultRenderSettings(FALSE)
    /\ dev_pixels_converged_count = 0
    /\ \E r \in GridResolutions, low \in BOOLEAN :
          KernelIdle(r,
                     [DefaultRenderSettings(FALSE) EXCEPT
                         !.render_low_resolution = low],
                     Black, {0})

GridNext == kernel_launch

GridSpec == GridInit /\ [][GridNext]_vars

(***************************************************************************)
(* Launches of PathTracerKernel from a state chosen among resolutions,     *)
(* settings, buffer contents and scenes.                                   *)
(***************************************************************************)
KernelInitAmong(resolutions, adaptives, lows, spfs, nans, garbages, hits) ==
    /\ InitHost
    /\ m_render_settings = DefaultRenderSettings(FALSE)
    /\ dev_pixels_converged_count = 0
    /\ \E r \in resolutions, adaptive \in adaptives, low \in lows,
          spf \in spfs, nan \in nans, garbage \in garbages :
          KernelIdle(r,
                     [DefaultRenderSettings(adaptive) EXCEPT
                         !.samples_per_frame = spf,
                         !.render_low_resolution = low,
                         !.display_NaNs = nan],
                     garbage, hits)

(***************************************************************************)
(* FrameSpec: frames with adaptive sampling enabled, at one pixel and at   *)
(* two pixels side by side, in full and in low resolution.                 *)
(***************************************************************************)
FrameInit ==
    KernelInitAmong({<<1, 1>>, <<2, 1>>}, {TRUE}, BOOLEAN, {1}, {FALSE},
                    {Black}, {0})

FrameSpec == FrameInit /\ [][KernelNext]_vars

(***************************************************************************)
(* AovSpec: frames of one pixel in a scene whose surfaces face the camera  *)
(* or face away from it, one or two samples per frame.                     *)
(***************************************************************************)
AovInit ==
    KernelInitAmong({<<1, 1>>}, {FALSE}, {FALSE}, {1, 2}, {FALSE},
                    {Black, <<1, 1>>}, {0 - 1, 0, 1})

AovSpec == AovInit /\ [][KernelNext]_vars

(***************************************************************************)
(* NaNSpec: frames of one pixel and of three pixels side by side, with     *)
(* display_NaNs set or not, in full and in low resolution.                 *)
(***************************************************************************)
NaNInit ==
    KernelInitAmong({<<1, 1>>, <<3, 1>>}, {FALSE}, BOOLEAN, {1}, BOOLEAN,
                    {Black, <<1, 1>>}, {0})

NaNSpec == NaNInit /\ [][KernelNext]_vars

(***************************************************************************)
(* LowResSpec: low-resolution launches at one row of two blocks and at     *)
(* two rows of one block.                                                  *)
(***************************************************************************)
LowResInit ==
    KernelInitAmong({<<3, 1>>, <<1, 2>>}, {FALSE}, {TRUE}, {1}, {FALSE},
                    {Black}, {0})

LowResSpec == LowResInit /\ [][KernelNext]_vars

(***************************************************************************)
(* BsdfSpec: the Cook-Torrance functions called with every view and light  *)
(* direction, surface normal and sampled microfacet normal of Directions.  *)
(***************************************************************************)
BsdfNext ==
    \/ \E v \in Directions, l \in Directions, n \in Directions :
          evaluate_bsdf(v, l, n)
    \/ \E v \in Directions, n \in Directions, m \in Directions :
          sample_bsdf(v, n, m)

BsdfSpec == Init /\ [][BsdfNext]_vars

(***************************************************************************)
(* PathSpec: one thread from the sample loop to its end, for every number  *)
(* of bounces and of samples per frame, in full and in low resolution.     *)
(* A thread that can take a step takes it.                                 *)
(***************************************************************************)
PathSettings ==
    {[DefaultRenderSettings(FALSE) EXCEPT
         !.nb_bounces = nb, !.samples_per_frame = spf,
         !.render_low_resolution = low] :
       nb \in 0..MaxBounces, spf \in 1..MaxSamplesPerFrame, low \in BOOLEAN}

PathNext ==
    \/ \E rs \in PathSettings : path_start(rs)
    \/ path_sample
    \/ path_bounce
    \/ path_sample_end

PathSpec == Init /\ [][PathNext]_vars /\ WF_vars(PathNext)

(***************************************************************************)
(* Properties of the kernel.                                               *)
(***************************************************************************)
\* the colour stored at index i divided by the number of samples of the
\* render is the mean of the samples accumulated at index i
StoredColorIsMean(i) ==
    pixels[i][1] * accumulated[i].samples =
        accumulated[i].sum * render_data.sample_number * pixels[i][2]

\* C1, as stated, for the frames rendered at full resolution in which no
\* sample failed the sanity check: after every frame and for every pixel
\* that received samples, the stored colour divided by the number of
\* samples of the render is the mean of the samples of that pixel.
C1_RunningMean ==
    /\ kernel_phase = "idle"
    /\ all_valid
    /\ ~render_data.render_low_resolution
    => \A i \in DOMAIN pixels :
          accumulated[i].samples > 0 => StoredColorIsMean(i)

(***************************************************************************)
(* Properties of the orchestrator.                                         *)
(***************************************************************************)
\* the step is update() returning to its caller
UpdateReturned == (update \/ update_synchronized) /\ host_pc' = "idle"

\* the step (re)allocates or frees device buffer b
Reallocates(b) ==
    \/ /\ \E w \in Widths, h \in Heights : resize(w, h)
       /\ b \in resize_buffers(m_render_settings)
    \/ /\ \E image \in EnvmapImages :
             set_envmap(image) /\ image[2] # 0 /\ image[3] # 0
       /\ b \in {"envmap", "envmap_cdf"}
    \/ /\ set_scene(1)
       /\ b = "scene"
    \/ /\ UpdateReturned
       /\ b \in update_reallocated_buffers(m_render_settings, element_count)

\* the step is resize, set_envmap or set_scene called with a launch in flight
ReallocatingCallInFlight ==
    /\ LaunchInFlight
    /\ \/ \E w \in Widths, h \in Heights : resize(w, h)
       \/ \E image \in EnvmapImages : set_envmap(image)
       \/ set_scene(1)

\* C2, as stated: in every sequence of orchestrator operations, no buffer
\* referenced by an enqueued, uncompleted launch is allocated, resized or
\* freed.
C2_AnySequence ==
    [][\A b \in BufferNames : Reallocates(b) => ~InFlightRef(stream, b)]_vars

\* C2, amended: no buffer referenced by an enqueued, uncompleted launch is
\* allocated, resized or freed, in every sequence of operations in which
\* resize, set_envmap and set_scene are not called with a launch in flight;
\* update() may be called at any time.
C2_CallerSynchronizes ==
    [][~ReallocatingCallInFlight =>
         \A b \in BufferNames : Reallocates(b) => ~InFlightRef(stream, b)]_vars

\* update() has returned with a launch in flight that references the
\* statistics buffers
C2_Witness ==
    /\ since_update = "none"
    /\ host_pc = "idle"
    /\ \A b \in StatsBuffers : InFlightRef(stream, b)

\* C3: when update() allocates a statistics buffer that has no element or
\* frees one that has elements, it has waited for the main stream: nothing
\* submitted remains on the stream at that step.
C3_UpdateWaits ==
    [][UpdateReturned
         /\ update_reallocated_buffers(m_render_settings, element_count) # {}
       => stream = <<>>]_vars

\* update() is waiting in synchronize_kernel() for a launch in flight, a
\* statistics buffer being about to be allocated or freed
C3_Witness ==
    /\ host_pc = "update_sync"
    /\ LaunchInFlight
    /\ update_reallocated_buffers(m_render_settings, element_count) # {}

\* C4, as stated: the read-back of copy_status_buffers and the clearing
\* upload of update() happen with no launch in flight.
C4_NoAccessInFlight ==
    [][(copy_status_buffers \/ update) => ~LaunchInFlight]_vars

\* C5: when render() issues a launch whose settings have adaptive sampling
\* or the noise threshold active, and update() was called after the last
\* change of the settings, both statistics buffers have elements.
C5_StatsAllocatedAtLaunch ==
    [][render /\ since_update # "dirty"
         /\ has_access_to_adaptive_sampling_buffers(m_render_settings)
       => \A b \in StatsBuffers : element_count[b] > 0]_vars

\* a launch is in flight whose snapshot has access to the statistics
\* buffers, issued by a render() that followed update()
C5_Witness ==
    \E i \in KernelOps(stream) :
        /\ stream[i].snap.after_update
        /\ StatsBuffers \subseteq stream[i].snap.refs

\* C6: when update() returns, a needed statistics buffer that had no
\* element has render_width * render_height elements, a needed buffer that
\* had elements keeps them, and both buffers have no element when they are
\* not needed.
C6_UpdateReconciles ==
    [][UpdateReturned =>
         \A b \in StatsBuffers :
            element_count'[b] =
              IF has_access_to_adaptive_sampling_buffers(m_render_settings)
              THEN IF element_count[b] = 0
                   THEN m_render_width * m_render_height
                   ELSE element_count[b]
              ELSE 0]_vars

\* update() has just returned, at a resolution other than the one the
\* statistics buffers were sized for
C6_Witness ==
    /\ since_update = "none"
    /\ has_access_to_adaptive_sampling_buffers(m_render_settings)
    /\ \A b \in StatsBuffers :
          /\ element_count[b] > 0
          /\ element_count[b] # m_render_width * m_render_height

\* C7, as stated: when update() returns, the device active flag and the
\* device converged counter hold 0.
C7_StatusResetAtReturn ==
    [][UpdateReturned =>
         dev_still_one_ray_active' = 0 /\ dev_pixels_converged_count' = 0]_vars

\* C8: every launch on the stream was enqueued with the compiled entry
\* point, the compilation thread having finished.
C8_LaunchAfterCompile ==
    \A i \in KernelOps(stream) :
        stream[i].fn = 1 /\ compile_thread = "finished"

\* the first launch is on the stream
C8_Witness ==
    \E i \in KernelOps(stream) : stream[i].frame = 1 /\ stream[i].fn = 1

\* the operations of frame f on queue q come in the order start timestamp,
\* one kernel launch, stop timestamp, callback
FrameInOrder(q, f) ==
    /\ Cardinality({i \in KernelOps(q) : q[i].frame = f}) <= 1
    /\ \A i, j \in 1..Len(q) :
          /\ q[i].frame = f
          /\ q[j].frame = f
          /\ \/ q[i].type = "record" /\ q[i].event = "frame_start"
                  /\ q[j].type = "kernel"
             \/ q[i].type = "kernel"
                  /\ q[j].type = "record" /\ q[j].event = "frame_stop"
             \/ q[i].type = "record" /\ q[i].event = "frame_stop"
                  /\ q[j].type = "hostfunc" /\ q[j].out = "m_last_frame_time"
          => i < j

\* C9: render() appends to the stream, without waiting for what is on it,
\* a start timestamp, one kernel launch, a stop timestamp and the callback,
\* in this order; when the callback of a frame runs, the kernel and the
\* timestamps of that frame have left the stream, and the time it stores is
\* made of the two timestamps of that frame.
C9_FrameTiming ==
    [][/\ render =>
            /\ Len(stream') > Len(stream)
            /\ SubSeq(stream', 1, Len(stream)) = stream
            /\ Cardinality(KernelOps(stream')) =
                 Cardinality(KernelOps(stream)) + 1
            /\ stream'[Len(stream')].type = "hostfunc"
            /\ stream'[Len(stream')].out = "m_last_frame_time"
       /\ \A f \in 1..MaxFrames : FrameInOrder(stream', f)
       /\ stream_execute /\ Head(stream).type = "hostfunc"
            /\ Head(stream).out = "m_last_frame_time" =>
            /\ \A i \in 1..Len(stream') :
                  stream'[i].frame # Head(stream).frame
            /\ \/ m_last_frame_time' = m_last_frame_time
               \/ m_last_frame_time' =
                    <<Head(stream).frame, Head(stream).frame>>]_vars

\* two frames were queued together on the same events: the callback of the
\* first has run and stored nothing, the callback of the second is about to
\* run with both timestamps of the second frame
C9_Witness ==
    /\ stream # <<>>
    /\ Head(stream).type = "hostfunc"
    /\ Head(stream).out = "m_last_frame_time"
    /\ Head(stream).frame = 2
    /\ m_last_frame_time = NoTime
    /\ \A e \in {"frame_start", "frame_stop"} :
          events[e].pending = 0 /\ events[e].stamp = 2

\* C10: a launch on the stream keeps the snapshot render() gave it whatever
\* the orchestrator does next; executing it leaves the orchestrator's
\* settings as they are, and whether it counts converged pixels is decided
\* by the settings of its snapshot.
C10_SnapshotUsed ==
    [][/\ \A i \in KernelOps(stream), j \in KernelOps(stream') :
             stream[i].frame = stream'[j].frame =>
                stream[i].snap = stream'[j].snap
       /\ stream_execute =>
             /\ m_render_settings' = m_render_settings
             /\ m_world_settings' = m_world_settings
       /\ stream_execute /\ Head(stream).type = "kernel"
            /\ ~has_access_to_adaptive_sampling_buffers(
                   Head(stream).snap.render_settings) =>
             dev_pixels_converged_count' = dev_pixels_converged_count]_vars

\* a launch in low resolution is in flight and the settings were edited
\* after render() returned
C10_Witness ==
    \E i \in KernelOps(stream) :
        /\ stream[i].snap.render_settings.render_low_resolution
        /\ stream[i].snap.render_settings # m_render_settings
        /\ stream[i].snap.world_settings # m_world_settings

(***************************************************************************)
(* reset() and resize()                                                    *)
(***************************************************************************)
\* C11, as stated: after reset() returns, sample_number, frame_number and
\* samples_per_frame are all 0 and both status scalars, the active flag and
\* the converged counter, are zero.
C11_AllZero ==
    [][reset =>
         /\ m_render_settings'.sample_number = 0
         /\ m_render_settings'.frame_number = 0
         /\ m_render_settings'.samples_per_frame = 0
         /\ m_status_buffers_values'.one_ray_active = 0
         /\ m_status_buffers_values'.pixel_converged_count = 0]_vars

\* C11, as the code has it: after reset() returns, sample_number and
\* frame_number are 0, samples_per_frame is 1, the host copy of the active
\* flag is true and the host copy of the converged counter is 0; the two
\* device scalars are left as they were.
C11_ResetState ==
    [][reset =>
         /\ m_render_settings'.sample_number = 0
         /\ m_render_settings'.frame_number = 0
         /\ m_render_settings'.samples_per_frame = 1
         /\ m_status_buffers_values'.one_ray_active = 1
         /\ m_status_buffers_values'.pixel_converged_count = 0
         /\ UNCHANGED <<dev_still_one_ray_active, dev_pixels_converged_count>>
      ]_vars

\* reset() has returned after a frame completed and stored its time: the
\* frame time is cleared again and the counters are back at their start,
\* while the device counter still holds what the launch added
C11_Witness ==
    /\ launches = 1
    /\ stream = <<>>
    /\ m_last_execution_time # NoTime
    /\ m_last_frame_time = NoTime
    /\ m_render_settings.sample_number = 0
    /\ m_render_settings.frame_number = 0
    /\ m_render_settings.samples_per_frame = 1
    /\ m_status_buffers_values =
         [one_ray_active |-> 1, pixel_converged_count |-> 0]
    /\ dev_still_one_ray_active = 1

\* C12: reset() allocates, frees and resizes no device buffer and leaves
\* the render width and height alone: every element count is the same
\* before and after it.
C12_ResetKeepsBuffers ==
    [][reset =>
         UNCHANGED <<element_count, m_render_width, m_render_height>>]_vars

\* reset() has returned on a renderer whose per-pixel buffers are sized
\* and whose frame completed
C12_Witness ==
    /\ launches = 1
    /\ stream = <<>>
    /\ m_last_execution_time # NoTime
    /\ m_last_frame_time = NoTime
    /\ m_render_width = 1 /\ m_render_height = 1
    /\ \A b \in PerPixelBuffers : element_count[b] = 1

\* C13: after resize(w, h) returns, every per-pixel buffer that is
\* allocated (colour, denoised colour, normal and albedo AOV, per-pixel
\* sample count, per-pixel squared luminance) has exactly w * h elements.
C13_ResizeSizesAll ==
    [][\A w \in Widths, h \in Heights :
          resize(w, h) =>
             \A b \in PerPixelBuffers \cup StatsBuffers :
                element_count'[b] # 0 => element_count'[b] = w * h]_vars

(***************************************************************************)
(* The grid of a launch                                                    *)
(***************************************************************************)
\* C14: the launch uses 8x8 tiles in ceil(width/8) by ceil(height/8)
\* groups, so for every pixel (x, y) with 0 <= x < width and
\* 0 <= y < height exactly one thread with those coordinates is started,
\* and it passes the bounds check: the whole resolution is covered.
C14_GridCoversResolution ==
    kernel_phase = "running" =>
        /\ TileSize = 8
        /\ \A x \in 0..(res[1] - 1), y \in 0..(res[2] - 1) :
              /\ Cardinality({id \in GridThreadIds(res[1], res[2]) :
                                ThreadCoordinates(id) = <<x, y>>}) = 1
              /\ <<x, y>> \in DOMAIN threads

\* a launch of two by two tiles whose last tiles are cut by the resolution
C14_Witness ==
    /\ kernel_phase = "running"
    /\ res = <<9, 9>>
    /\ <<8, 8>> \in DOMAIN threads

\* C20: within one launch, no two threads that pass the bounds check write
\* the same linear pixel index of the framebuffers, whatever the
\* resolution (widths that are not a multiple of the tile size included)
\* and in low resolution too.
C20_NoSharedIndex ==
    kernel_phase = "running" =>
        \A t \in DOMAIN threads, u \in DOMAIN threads :
            (/\ t # u
             /\ ~LowResolutionSkips(t, kernel_thread_settings(render_data))
             /\ ~LowResolutionSkips(u, kernel_thread_settings(render_data)))
            => BufferIndex(t, kernel_thread_settings(render_data), res[1])
                 # BufferIndex(u, kernel_thread_settings(render_data), res[1])

(***************************************************************************)
(* The seed of a thread's random sequence                                  *)
(***************************************************************************)
\* C15: with freeze_random set the seed of a pixel's random sequence is
\* wang_hash(pixel_index + 1), in 32-bit arithmetic, so two launches with
\* freeze_random set, identical settings and identical buffer contents
\* leave identical buffer contents.
C15_FrozenRandomRepeats ==
    /\ render_data.freeze_random =>
          \A k \in DOMAIN traced :
             \E i \in DOMAIN pixels :
                k[1] = wang_hash(WordAdd(ToWord(i), ToWord(1)))
    /\ \A i \in DOMAIN runs, j \in DOMAIN runs :
          (/\ runs[i].settings.freeze_random
           /\ runs[i].settings = runs[j].settings
           /\ runs[i].before = runs[j].before)
          => runs[i].after = runs[j].after

(***************************************************************************)
(* Compilation of the kernel                                               *)
(***************************************************************************)
\* the entry point of the kernel as it is now: its path, its name and its
\* current option set
CurrentEntryPoint == compile(m_path_trace_kernel)

\* the option set an entry point was compiled with
EntryPointOptions(fn) ==
    IF fn = 0 THEN [USE_HWI |-> -1] ELSE [USE_HWI |-> (fn - 1) % 2]

\* the entry point render() hands to the launch it enqueues
LaunchedEntryPoint(q) ==
    q[CHOOSE i \in KernelOps(q) : \A j \in KernelOps(q) : j <= i].fn

C17_CompileIsExplicit ==
    [][/\ m_kernel_function' # m_kernel_function =>
            recompile_trace_kernel \/ compile_thread_finishes
       /\ \A field \in KernelFields :
            set_kernel(field) => m_kernel_function' = m_kernel_function
       /\ recompile_trace_kernel =>
            m_kernel_function' =
               compile_kernel(m_path_trace_kernel,
                              get_additional_cache_key(m_path_trace_kernel))
      ]_vars

\* the three setters were called, no compile() followed, and the entry
\* point is still the one of the kernel as the constructor set it
C17_Witness ==
    /\ compile_thread = "finished"
    /\ m_path_trace_kernel =
         [kernel_file_path |-> 1, kernel_function_name |-> 1,
          compiler_options |-> [USE_HWI |-> 1]]
    /\ m_kernel_function = 1
    /\ ~recompiled_since_set

(***************************************************************************)
(* Completion of a frame                                                   *)
(***************************************************************************)
\* an operation of frame f is on the stream
FrameInFlight(f) == \E i \in DOMAIN stream : stream[i].frame = f

\* C18: every frame render() submitted runs to completion without the
\* control thread waiting for it: its launch and its timing callbacks
\* leave the stream, and the poll frame_render_done() returns true
\* eventually once no further frame is submitted.
C18_FrameCompletes ==
    /\ \A f \in 1..MaxFrames :
          FrameInFlight(f) ~> (launches >= f /\ ~FrameInFlight(f))
    /\ ~frame_render_done ~> frame_render_done

\* every frame was submitted, none is left on the stream and both timing
\* callbacks stored the time of the last one
C18_Witness ==
    /\ launches = MaxFrames
    /\ frame_render_done
    /\ m_last_frame_time = <<MaxFrames, MaxFrames>>
    /\ m_last_execution_time = <<MaxFrames, MaxFrames>>

(***************************************************************************)
(* set_envmap with an empty image                                          *)
(***************************************************************************)
\* C19: set_envmap with an image of zero width or zero height sets the
\* ambient light type to UNIFORM, leaves the environment texture handle,
\* its dimensions and its CDF pointer in the world settings as they were,
\* allocates nothing, and returns.
C19_EmptyEnvmapFallsBack ==
    [][\A image \in EnvmapImages :
          (set_envmap(image) /\ (image[2] = 0 \/ image[3] = 0)) =>
             /\ m_world_settings'.ambient_light_type = "UNIFORM"
             /\ m_world_settings'.envmap = m_world_settings.envmap
             /\ m_world_settings'.envmap_width = m_world_settings.envmap_width
             /\ m_world_settings'.envmap_height
                  = m_world_settings.envmap_height
             /\ m_world_settings'.envmap_cdf = m_world_settings.envmap_cdf
             /\ element_count' = element_count
             /\ host_pc' = "idle"]_vars

\* an environment map is set, a launch that references it is in flight
\* with the ambient light type ENVMAP, and the type is UNIFORM again
C19_Witness ==
    /\ m_world_settings.ambient_light_type = "UNIFORM"
    /\ m_world_settings.envmap = 1
    /\ m_world_settings.envmap_width = 1
    /\ m_world_settings.envmap_cdf = 1
    /\ \E i \in KernelOps(stream) :
          /\ stream[i].snap.world_settings.ambient_light_type = "ENVMAP"
          /\ stream[i].snap.world_settings.envmap = 1


(***************************************************************************)
(* Properties of the statistics buffers at a launch.                       *)
(***************************************************************************)
\* C21, as stated: when render() issues a launch right after update() and
\* the settings give access to the statistics buffers, each statistics
\* buffer has exactly render_width * render_height elements.
C21_StatsSizedAtLaunch ==
    [][render /\ since_update = "none"
         /\ has_access_to_adaptive_sampling_buffers(m_render_settings)
       => \A b \in StatsBuffers :
             element_count[b] = m_render_width * m_render_height]_vars


(***************************************************************************)
(* Properties of the frame time across reset().                            *)
(***************************************************************************)
\* C30, as stated: after reset() returned, get_last_frame_time() returns 0
\* until a frame submitted after that reset() has completed: a frame time
\* other than 0 is the time of a frame submitted after the last reset().
C30_FrameTimeResetHolds ==
    m_last_frame_time # NoTime => m_last_frame_time[2] > launches_at_reset


(***************************************************************************)
(* Properties of the Cook-Torrance functions.                              *)
(***************************************************************************)
Degenerate(c) == c.NoV <= 0 \/ c.NoL <= 0 \/ c.NoH <= 0

\* C28, as stated: the evaluation and the importance sampling return a
\* zero contribution and a zero PDF whenever one of NoV, NoL, NoH is not
\* above 0, and the importance sampling does so too when the sampled
\* microfacet normal is below the surface.
C28_DegenerateIsZero ==
    /\ bsdf.function # "none"
    /\ Degenerate(bsdf.cosines) \/ bsdf.below
    => bsdf.brdf_color = "zero" /\ bsdf.pdf = "zero"

\* the same, of the contribution of both functions and of the PDF of the
\* importance sampling only
C28_SampledDegenerateIsZero ==
    /\ bsdf.function # "none"
    /\ Degenerate(bsdf.cosines) \/ bsdf.below
    => /\ bsdf.brdf_color = "zero"
       /\ bsdf.function = "sample" => bsdf.pdf = "zero"


(***************************************************************************)
(* Properties of one thread of PathTracerKernel.                           *)
(***************************************************************************)
\* thread t runs in this step from its first line to its return or to its
\* store
ThreadRuns(t) ==
    /\ t \in DOMAIN threads
    /\ t \in DOMAIN threads'
    /\ threads[t].pc = "start"
    /\ threads'[t].pc # "start"

\* the index thread t reads and writes the buffers at
IndexOf(t) == BufferIndex(t, kernel_thread_settings(render_data), res[1])

\* the colour stored at index i after the step is the colour stored before
\* it, divided by sample_number and multiplied by sample_number +
\* samples_per_frame
Rescaled(i) ==
    LET rs == kernel_thread_settings(render_data) IN
    pixels'[i][1] * pixels[i][2] * rs.sample_number =
        pixels[i][1] * (rs.sample_number + rs.samples_per_frame) * pixels'[i][2]

\* the thread returns without tracing a ray, accumulating a sample or
\* setting the active flag
ReturnsUntraced(t) ==
    /\ threads'[t].pc = "done"
    /\ traced' = traced
    /\ accumulated' = accumulated
    /\ pixel_squared_luminance' = pixel_squared_luminance
    /\ still_one_ray_active' = still_one_ray_active

\* C22, as stated: a thread whose pixel the controller flags as converged,
\* or for which sampling is not needed, adds exactly 1 to the converged
\* counter, rescales the stored colour and returns without tracing a ray,
\* accumulating a sample or setting the active flag.
C22_ConvergedOrStoppedReturns ==
    [][\A t \in DOMAIN threads :
          /\ ThreadRuns(t)
          /\ threads'[t].pixel_converged \/ threads'[t].outcome = "stopped"
          => /\ stop_noise_threshold_count' = stop_noise_threshold_count + 1
             /\ Rescaled(IndexOf(t))
             /\ ReturnsUntraced(t)]_vars

\* C22, amended: a thread for whose pixel sampling is not needed adds
\* exactly 1 to the converged counter, rescales the stored colour and
\* returns without tracing a ray, accumulating a sample or setting the
\* active flag; a thread whose pixel is flagged as converged while sampling
\* is still needed adds exactly 1 to the counter and samples the pixel.
C22_StoppedReturns ==
    [][\A t \in DOMAIN threads :
          ThreadRuns(t) =>
             /\ threads'[t].outcome = "stopped" =>
                   /\ stop_noise_threshold_count' = stop_noise_threshold_count + 1
                   /\ Rescaled(IndexOf(t))
                   /\ ReturnsUntraced(t)
             /\ threads'[t].pixel_converged =>
                   /\ stop_noise_threshold_count' = stop_noise_threshold_count + 1
                   /\ threads'[t].outcome \in {"stopped", "sampled", "invalid"}]_vars

\* two threads of one launch returned as not needing sampling, one of them
\* with a colour other than black rescaled, and the counter holds both
\* increments
C22_Witness ==
    /\ kernel_phase = "running"
    /\ stop_noise_threshold_count = 2
    /\ \A t \in DOMAIN threads : threads[t].outcome = "stopped"
    /\ \E i \in DOMAIN pixels : pixels[i] = <<2, 1>>


\* the five values the kernel keeps for the pixel at index i, after the step
PixelStateAfter(i) ==
    <<pixels'[i], denoiser_normals'[i], denoiser_albedo'[i],
      pixel_sample_count'[i], pixel_squared_luminance'[i]>>

\* the same, before the step
PixelStateBefore(i) ==
    <<pixels[i], denoiser_normals[i], denoiser_albedo[i],
      pixel_sample_count[i], pixel_squared_luminance[i]>>

\* thread t stops in this step at a failed sanity check that writes no
\* sentinel colour
StopsInvalid(t) ==
    /\ ThreadRuns(t)
    /\ threads'[t].outcome = "invalid"
    /\ ~render_data.display_NaNs

\* thread t reaches in this step the store of its colour, its samples
\* traced and nothing added yet to the colour and to the denoiser buffers
ReachesStore(t) ==
    /\ ThreadRuns(t)
    /\ threads'[t].pc = "store"

\* C23, as stated, reset_normal being the denoiser normal the claim
\* expects after the reset: in a launch with sample_number = 0 a thread
\* that evaluates its pixel finds the colour, the denoiser normal and the
\* denoiser albedo set to zero before it accumulates (and the sample count
\* and the squared luminance when the statistics buffers are accessible);
\* in a launch with sample_number # 0 nothing is reset.
ResetAtSampleZero(reset_normal) ==
    \A t \in DOMAIN threads :
       LET i == IndexOf(t)
           access == has_access_to_adaptive_sampling_buffers(render_data)
       IN
       /\ StopsInvalid(t) /\ render_data.sample_number = 0
          => /\ PixelStateAfter(i)[1] = Black
             /\ PixelStateAfter(i)[2] = reset_normal
             /\ PixelStateAfter(i)[3] = Black
             /\ access => PixelStateAfter(i)[4] = 0 /\ PixelStateAfter(i)[5] = 0
             /\ ~access => /\ PixelStateAfter(i)[4] = PixelStateBefore(i)[4]
                           /\ PixelStateAfter(i)[5] = PixelStateBefore(i)[5]
       /\ ReachesStore(t) /\ render_data.sample_number = 0
          => /\ PixelStateAfter(i)[1] = Black
             /\ PixelStateAfter(i)[2] = reset_normal
             /\ PixelStateAfter(i)[3] = Black
             /\ access => PixelStateAfter(i)[4] =
                            kernel_thread_settings(render_data).samples_per_frame
       /\ StopsInvalid(t) /\ render_data.sample_number # 0
          => PixelStateAfter(i) = PixelStateBefore(i)
       /\ ReachesStore(t) /\ render_data.sample_number # 0
          => /\ PixelStateAfter(i)[1] = PixelStateBefore(i)[1]
             /\ PixelStateAfter(i)[2] = PixelStateBefore(i)[2]
             /\ PixelStateAfter(i)[3] = PixelStateBefore(i)[3]

C23_ResetAtSampleZero == [][ResetAtSampleZero(ZeroNormal)]_vars

\* the same with the normal the code resets to, (1, 1, 1)
C23_ResetToCodeValues == [][ResetAtSampleZero(ResetNormal)]_vars


OffLowResolutionGrid(t) ==
    /\ render_data.render_low_resolution
    /\ \/ t[1] % render_data.render_low_resolution_scaling # 0
       \/ t[2] % render_data.render_low_resolution_scaling # 0

\* the pixels of the image in the s-by-s block of column i and row j
BlockPixels(i, j) ==
    LET s == render_data.render_low_resolution_scaling IN
    {p \in (0..(res[1] - 1)) \X (0..(res[2] - 1)) :
        p[1] \div s = i /\ p[2] \div s = j}

\* the s-by-s blocks that hold a pixel of the image
Blocks ==
    LET s == render_data.render_low_resolution_scaling IN
    (0..((res[1] - 1) \div s)) \X (0..((res[2] - 1) \div s))

\* a step of a thread off the grid writes nothing
SkippedThreadWritesNothing ==
    \A t \in DOMAIN threads :
       ThreadRuns(t) /\ OffLowResolutionGrid(t)
       => /\ threads'[t].pc = "done"
          /\ KernelBuffers' = KernelBuffers
          /\ still_one_ray_active' = still_one_ray_active
          /\ stop_noise_threshold_count' = stop_noise_threshold_count
          /\ traced' = traced
          /\ accumulated' = accumulated

\* once every thread of a low-resolution launch has run, each block holds
\* exactly one pixel whose thread went on to evaluate it
OnePixelPerBlock ==
    (/\ threads # << >>
     /\ render_data.render_low_resolution
     /\ \A t \in DOMAIN threads : threads[t].pc # "start")
    => \A b \in Blocks :
          Cardinality({p \in BlockPixels(b[1], b[2]) :
                          /\ p \in DOMAIN threads
                          /\ threads[p].outcome # "skipped"}) = 1

\* C25: in low-resolution mode with scaling factor s a thread at (x, y)
\* with x mod s # 0 or y mod s # 0 returns without writing a framebuffer, an
\* AOV, a statistics buffer or a status scalar, and exactly one pixel of
\* each s-by-s block of the image is evaluated.
C25_LowResolutionSkips ==
    [][SkippedThreadWritesNothing /\ OnePixelPerBlock']_vars

\* a low-resolution launch at 3x1 is over: the thread at (1, 0) was
\* skipped, the threads at (0, 0) and (2, 0) evaluated their pixels
C25_Witness ==
    /\ render_data.render_low_resolution
    /\ res = <<3, 1>>
    /\ threads # << >>
    /\ \A t \in DOMAIN threads : threads[t].pc = "done"
    /\ threads[<<1, 0>>].outcome = "skipped"
    /\ threads[<<0, 0>>].outcome # "skipped"
    /\ threads[<<2, 0>>].outcome # "skipped"


\* the rays of the current sample are at most nb_bounces, at most 3 in a
\* low-resolution launch, where one sample only is traced
RaysBounded ==
    path.phase # "none" =>
       /\ ~path.launched_low_resolution => path.rays <= path.launched_nb_bounces
       /\ path.launched_low_resolution
          => /\ path.rays <= 3
             /\ path.sample <= 1
             /\ path.phase = "bounce" => path.sample = 0

\* a ray is traced only in state BOUNCE; after a miss the state is MISSED
\* and the sample traces no further ray; after a bsdf sample with
\* pdf <= 0 the bounce loop is left with the throughput and the ray as
\* they were
BounceStep ==
    path.phase = "bounce" =>
       /\ path'.rays > path.rays => path.next_ray_state = "BOUNCE"
       /\ (path'.rays > path.rays /\ ~path'.intersection_found)
          => path'.next_ray_state = "MISSED"
       /\ path.next_ray_state = "MISSED"
          => path'.rays = path.rays /\ path'.phase = "check"
       /\ (path'.rays > path.rays /\ path'.intersection_found
             /\ path'.brdf_pdf <= 0)
          => /\ path'.phase = "check"
             /\ path'.throughput = path.throughput
             /\ path'.ray = path.ray

\* C26: each sample traces at most nb_bounces rays (3 in low resolution,
\* where samples_per_frame is 1), and only in state BOUNCE: after a miss
\* the state is MISSED and no further ray is traced for the sample, after a
\* bsdf sample with pdf <= 0 the path ends with throughput and ray not
\* updated; the bounce loop and the sample loop terminate.
C26_BoundedPath ==
    /\ []RaysBounded
    /\ [][BounceStep]_vars
    /\ \A k \in 0..MaxSamplesPerFrame :
          (path.phase = "bounce" /\ path.sample = k)
             ~> (path.phase \in {"check", "done"} /\ path.sample = k)
    /\ <>(path.phase = "done")

\* a sample whose second ray hit a surface with a bsdf sample of pdf <= 0
C26_Witness ==
    /\ path.phase = "check"
    /\ path.rays = 2
    /\ path.intersection_found
    /\ path.brdf_pdf <= 0
    /\ path.throughput = 1


\* thread t stops in this step at a failed sanity check, in a launch that
\* resets nothing (sample_number > 0); when the sentinel colour is
\* displayed it is the colour of the thread's pixel, every other colour
\* being left as it was
InvalidSampleStops(t) ==
    (/\ ThreadRuns(t)
     /\ threads'[t].outcome = "invalid"
     /\ render_data.sample_number > 0)
    => /\ threads'[t].pc = "done"
       /\ accumulated' = accumulated
       /\ still_one_ray_active' = still_one_ray_active
       /\ pixel_sample_count' = pixel_sample_count
       /\ pixel_squared_luminance' = pixel_squared_luminance
       /\ denoiser_normals' = denoiser_normals
       /\ denoiser_albedo' = denoiser_albedo
       /\ ~render_data.display_NaNs => pixels' = pixels
       /\ render_data.display_NaNs
          => pixels' = [pixels EXCEPT ![IndexOf(t)] =
                           <<NaNColor * render_data.sample_number, 1>>]

\* C27: a thread whose sample fails the sanity check stops for the frame;
\* with display_NaNs off it leaves the colour, the AOVs, the sample count,
\* the squared luminance and the active flag as they were and accumulates
\* no sample of the frame; with display_NaNs on the colour of its pixel is
\* overwritten by the sentinel colour times sample_number (stated for the
\* launches with sample_number > 0, which reset nothing).
C27_InvalidSampleStops ==
    [][\A t \in DOMAIN threads : InvalidSampleStops(t)]_vars

\* the same in full resolution only
C27_FullResolutionInvalidSampleStops ==
    [][~render_data.render_low_resolution
         => \A t \in DOMAIN threads : InvalidSampleStops(t)]_vars


\* thread t stores in this step the colour and the AOVs of its pixel
StoresFrame(t) ==
    /\ t \in DOMAIN threads
    /\ threads[t].pc = "store"
    /\ threads'[t].pc = "done"

\* the accumulated normal of the frame thread t stores, from the normal
\* the buffer holds before the store
AccumulatedNormalOf(t) ==
    accumulated_normal(denoiser_normals[threads[t].pixel_index],
                       render_data.frame_number, threads[t].denoiser_normal,
                       kernel_thread_settings(render_data).samples_per_frame)

\* C29: after a sampled pixel finishes a frame its stored denoiser normal
\* is the accumulated normal (old * frame_number + per_frame_avg) /
\* (frame_number + 1) divided by its length, and the zero vector when the
\* accumulated normal has length zero.
C29_StoredNormal ==
    [][\A t \in DOMAIN threads :
          StoresFrame(t)
          => denoiser_normals'[threads[t].pixel_index] =
               IF AccumulatedNormalOf(t) = ZeroNormal
               THEN ZeroNormal
               ELSE Normalized(AccumulatedNormalOf(t))]_vars

\* the same for the accumulated normals of non-zero length only
C29_NonZeroNormalIsNormalized ==
    [][\A t \in DOMAIN threads :
          (StoresFrame(t) /\ AccumulatedNormalOf(t) # ZeroNormal)
          => denoiser_normals'[threads[t].pixel_index] =
               Normalized(AccumulatedNormalOf(t))]_vars

====
